---- MODULE Spec2Model ----
(***************************************************************************)
(* Vendor-Places-Api: the pay-per-call route of the Express server and the *)
(* Stack registration service, as state machines.                          *)
(*                                                                         *)
(* Registration side (StackRegistrationService, initStackRegistration):    *)
(* every awaited fetch is two steps, the request leaving and the answer    *)
(* (or failure) coming back, so that other work interleaves at the awaits  *)
(* exactly as on the JavaScript event loop.                                *)
(***************************************************************************)
EXTENDS Integers, Sequences, FiniteSets, TLC

\* ------------------------------------------------------------------ bounds
\* Largest retryAttempts option given to the constructor of the manual instance.
MaxAttempts == 3
\* Longest vendor list the registry answers with.
MaxVendors == 2

\* Requests the server receives in one run.
MaxRequests == 2
\* Distinct nonces the paying parties use.
MaxNonce == 2
\* POST /api/register requests being handled at the same time.
MaxRouteCalls == 2

\* ------------------------------------------------------- program constants
UsdcDecimals == 6
DefaultRetryAttempts == 3
DefaultRetryDelayMs == 5000
StartupRetryAttempts == 3
StartupRetryDelayMs == 5000
HealthTimeoutMs == 5000
QueryLengthLimit == 2048
RadiusLimit == 50000
Micro == 1000000
NonceHexLength == 64
SkewSeconds == 60
ValidForSeconds == 3600
QueryMinLength == 1
QueryMaxLength == 512
RadiusMinimum == 1
RadiusMaximum == 50000

\* ------------------------------------------------------------------ strings
\* A string is a sequence of its words (URLs: of their characters).
Includes(hay, needle) ==
    \E i \in 0..(Len(hay) - Len(needle)) : SubSeq(hay, i + 1, i + Len(needle)) = needle

AlreadyRegisteredPhrase == <<"already", "registered">>

\* url.replace(/\/$/, ""): one trailing slash removed.
StripTrailingSlash(u) ==
    IF Len(u) > 0 /\ u[Len(u)] = "/" THEN SubSeq(u, 1, Len(u) - 1) ELSE u

\* url and url/ are the same address: the two are equal, or one is the
\* other (not itself ending in a slash) with a slash appended.
SameUpToSlash(x, y) ==
    \/ x = y
    \/ \E b \in {x, y} :
         /\ (b = <<>> \/ b[Len(b)] # "/")
         /\ {x, y} = {b, Append(b, "/")}

\* ------------------------------------------------------------ the registry
\* What the registry (an unreliable remote party) may answer.
\* net = "fail": fetch rejected (network error, timeout) or the body is not JSON.
ErrorValues ==
    { [t |-> "undefined", s |-> <<>>],
      [t |-> "string", s |-> <<>>],
      [t |-> "string", s |-> <<"already", "registered">>],
      [t |-> "string", s |-> <<"vendor", "already", "registered">>],
      [t |-> "string", s |-> <<"Already", "registered">>],
      [t |-> "string", s |-> <<"invalid", "url">>],
      [t |-> "object", s |-> <<>>] }

VendorIds == {"v1", "v2"}

RegisterResponses ==
    { [net |-> "fail", ok |-> FALSE, body |-> "none", success |-> FALSE,
       error |-> [t |-> "undefined", s |-> <<>>], vendorId |-> "undefined"] }
    \cup
    { [net |-> "ok", ok |-> o, body |-> "null", success |-> FALSE,
       error |-> [t |-> "undefined", s |-> <<>>], vendorId |-> "undefined"] : o \in BOOLEAN }
    \cup
    [net : {"ok"}, ok : BOOLEAN, body : {"object"}, success : BOOLEAN,
     error : ErrorValues, vendorId : {"v1", "undefined"}]

HealthResponses == {"ok", "notOk", "error", "timeout"}

Urls ==
    { <<"a">>, <<"a", "/">>, <<"a", "/", "/">>, <<"b">> }

SelfUrls == { <<"a">>, <<"a", "/">> }

\* A listed vendor; hasUrl = FALSE is an entry without a url field.
VendorEntries ==
    { [hasUrl |-> TRUE, url |-> <<"a">>, id |-> "v1"],
      [hasUrl |-> TRUE, url |-> <<"a", "/">>, id |-> "v2"],
      [hasUrl |-> TRUE, url |-> <<"a", "/", "/">>, id |-> "v1"],
      [hasUrl |-> TRUE, url |-> <<"b">>, id |-> "v2"],
      [hasUrl |-> FALSE, url |-> <<>>, id |-> "v1"] }

VendorLists ==
    UNION { [1..n -> VendorEntries] : n \in 0..MaxVendors }

VendorsResponses ==
    { [net |-> "fail", ok |-> FALSE, hasVendors |-> FALSE, vendors |-> <<>>],
      [net |-> "ok", ok |-> FALSE, hasVendors |-> FALSE, vendors |-> <<>>],
      [net |-> "ok", ok |-> TRUE, hasVendors |-> FALSE, vendors |-> <<>>] }
    \cup
    { [net |-> "ok", ok |-> TRUE, hasVendors |-> TRUE, vendors |-> l] : l \in VendorLists }

\* --------------------------------------------------------------- instances
\* "startup": the service initStackRegistration constructs;
\* "manual": a service constructed by a caller (the exported stackRegistration
\* is the one with no retry option given).
Instances == {"startup", "manual"}

\* An optional constructor argument: {} when not provided, {v} when provided.
AttemptOptions == {{}} \cup { {n} : n \in (-1)..MaxAttempts }
DelayOptions == { {}, {0}, {1000} }

\* config.retryAttempts || 3: zero replaced by the default as well.
OrDefaultFalsy(opt, d) == IF opt = {} \/ opt = {0} THEN d ELSE CHOOSE v \in opt : TRUE

\* config.retryAttempts ?? 3
OrDefault(opt, d) == IF opt = {} THEN d ELSE CHOOSE v \in opt : TRUE

\* process.env.STACK_URL || process.env.PERKOS_STACK_URL || "http://localhost:3005"
StackUrl == "http://localhost:3005"

\* The constructor. name, description and category are those of
\* serviceDiscovery and "api", which both constructions of the service use.
\* options keeps the retry options as the caller gave them.
NewService(selfUrl, attemptsOpt, delayOpt) ==
    [ stackUrl |-> StackUrl,
      selfUrl |-> selfUrl,
      name |-> "Places",
      description |-> "serviceDiscovery.description",
      category |-> "api",
      retryAttempts |-> OrDefault(attemptsOpt, DefaultRetryAttempts),
      retryDelayMs |-> OrDefault(delayOpt, DefaultRetryDelayMs),
      attemptsGiven |-> attemptsOpt # {},
      delayGiven |-> delayOpt # {},
      options |-> [retryAttempts |-> attemptsOpt, retryDelayMs |-> delayOpt] ]

NoResult == [kind |-> "none"]
Thrown == [kind |-> "throw"]

VARIABLES
    disableStackRegistration,   \* process.env.DISABLE_STACK_REGISTRATION === "true"
    config,                     \* config of each service instance
    registered,                 \* the registered flag of each instance
    call,                       \* the method call in progress on each instance
    init,                       \* initStackRegistration's position and what it saw
    initLog,                    \* the requests initStackRegistration caused, in order
    x402Config,                 \* getConfig(): payTo, facilitatorUrl, network, priceUsd
    req,                        \* the inbound requests, in order of arrival
    facilitatorSeen,            \* nonces the facilitator has approved
    facilitatorRejectsReplay,   \* whether the facilitator refuses a nonce it has seen
    env,                        \* process.env as the server's modules read it
    proc,                       \* the server process: not started, serving or exited
    registerRoute,              \* the POST /api/register handler in progress
    lookup,                     \* one vendor-list answer and what was made of it
    search,                     \* one admitted request in a handler of the priced route
    validation,                 \* one body given to validateRequest
    quote,                      \* one price taken to the smallest unit and back
    signer,                     \* the payment flows of the paying party
    now                         \* Date.now(), in milliseconds

regVars == <<disableStackRegistration, config, registered, call, init, initLog>>

payVars == <<x402Config, req, facilitatorSeen, facilitatorRejectsReplay>>

extVars == <<search, validation, quote, signer, now>>

auxVars == <<env, proc, registerRoute, lookup, extVars>>

vars == <<disableStackRegistration, config, registered, call, init, initLog,
          x402Config, req, facilitatorSeen, facilitatorRejectsReplay,
          env, proc, registerRoute, lookup,
          search, validation, quote, signer, now>>

\* The POST /api/register handler when no request for it is being handled.
IdleRoute ==
    [ pc |-> "idle", status |-> 0, success |-> FALSE, sent |-> 0,
      requests |-> <<>>, sawAlready |-> FALSE ]

RouteSlots == 1..MaxRouteCalls

NoLookup == [pc |-> "none"]

\* Nothing in progress in the handlers, the validator, the price conversion
\* and the paying party.
NoSearch == [pc |-> "none"]

NoValidation == [pc |-> "none"]

NoQuote == [pc |-> "none"]

NoSigner == <<>>

ExtIdle ==
    /\ search = NoSearch
    /\ validation = NoValidation
    /\ quote = NoQuote
    /\ signer = NoSigner
    /\ now = 0

\* ------------------------------------------- StackRegistrationService calls
\* A method call on an instance. op/pc/attempt/result are the call's own
\* state; the remaining fields record what the call did so far (requests
\* sent, waits begun, milliseconds waited, the instant the health probe
\* left) and what the registry answered (whether its vendor list has this
\* vendor's address).
\* alreadyRegistered = FALSE stands for the field being absent.
IdleCall ==
    [ op |-> "none", pc |-> "idle", attempt |-> 0, result |-> NoResult,
      sent |-> 0, waits |-> 0, waited |-> 0, entered |-> FALSE,
      allFailed |-> TRUE, sawAlready |-> FALSE, alreadyAt |-> 0, probe |-> "none",
      requests |-> <<>>, since |-> 0, listed |-> FALSE ]

Truthy(e) == e.t = "object" \/ (e.t = "string" /\ e.s # <<>>)

HttpStatusError == [t |-> "string", s |-> <<"HTTP", "status">>]

\* attemptRegistration: one POST to /api/vendors/register and the reading of
\* its answer. A rejected fetch, a body that is not JSON and a null body
\* (data.success on null) all throw.
AttemptRegistration(resp) ==
    IF resp.net = "fail" \/ resp.body = "null" THEN Thrown
    ELSE IF ~resp.ok \/ ~resp.success
         THEN [ kind |-> "return", success |-> FALSE, vendorId |-> "undefined",
                error |-> IF Truthy(resp.error) THEN resp.error ELSE HttpStatusError ]
         ELSE [ kind |-> "return", success |-> TRUE, vendorId |-> resp.vendorId,
                error |-> [t |-> "undefined", s |-> <<>>] ]

\* register() without the check for an "already registered" answer.
RegisterBranchNoAlready(outcome) ==
    IF outcome.kind = "throw" THEN "retry"
    ELSE IF outcome.success THEN "success"
    ELSE "retry"

\* Any refusal with a text taken for "already registered".
RegisterBranchAnyRefusal(outcome) ==
    IF outcome.kind = "throw" THEN "retry"
    ELSE IF outcome.success THEN "success"
    ELSE IF outcome.error.t = "string" THEN "already"
    ELSE "retry"

\* The body of register()'s try block: what the attempt's outcome leads to.
\* error.includes on a value that is no string is a TypeError, which the
\* catch turns into a failed attempt like any other exception.
RegisterBranch(outcome) ==
    IF outcome.kind = "throw" THEN "retry"
    ELSE IF outcome.success THEN "success"
    ELSE IF outcome.error.t = "undefined" THEN "retry"
    ELSE IF outcome.error.t # "string" THEN "retry"
    ELSE IF Includes(outcome.error.s, AlreadyRegisteredPhrase) THEN "already"
    ELSE "retry"

\* for (...; attempt <= this.config.retryAttempts; ...)
LoopContinues(attempt, retryAttempts) == attempt <= retryAttempts

\* The wait taken after the last attempt too.
WaitAfterEveryAttempt(attempt, retryAttempts) == attempt <= retryAttempts

\* if (attempt < this.config.retryAttempts) await this.delay(...)
WaitBeforeRetry(attempt, retryAttempts) == attempt < retryAttempts

AlreadyRegisteredResult ==
    [ kind |-> "return", success |-> TRUE, alreadyRegistered |-> TRUE,
      vendorId |-> "undefined", failedAfter |-> 0 ]

SuccessResult(vendorId) ==
    [ kind |-> "return", success |-> TRUE, alreadyRegistered |-> FALSE,
      vendorId |-> vendorId, failedAfter |-> 0 ]

\* { success: false, error: `Registration failed after N attempts` }
FailureResult(cfg) ==
    [ kind |-> "return", success |-> FALSE, alreadyRegistered |-> FALSE,
      vendorId |-> "undefined", failedAfter |-> cfg.retryAttempts ]

\* The request attemptRegistration sends: fetch(registerUrl, {method, body}).
AttemptRequest(cfg) ==
    [ method |-> "POST",
      url |-> <<cfg.stackUrl, "/api/vendors/register">>,
      body |-> [ url |-> cfg.selfUrl, name |-> cfg.name,
                 description |-> cfg.description, category |-> cfg.category ] ]

\* The attempt number sent along in the body.
LoopHeadNumbersRequest(k, cfg, attempt) ==
    IF LoopContinues(attempt, cfg.retryAttempts)
    THEN [k EXCEPT !.attempt = attempt, !.pc = "fetch", !.sent = @ + 1,
                   !.requests = Append(@, [ AttemptRequest(cfg) EXCEPT
                                              !.body = [ url |-> cfg.selfUrl,
                                                         name |-> cfg.name,
                                                         description |-> cfg.description,
                                                         category |-> cfg.category,
                                                         attempt |-> attempt ] ])]
    ELSE [k EXCEPT !.attempt = attempt, !.pc = "returned", !.result = FailureResult(cfg)]

\* The loop header reached with the given attempt number: the next request
\* leaves, or the loop is over and register() reports failure.
LoopHead(k, cfg, attempt) ==
    IF LoopContinues(attempt, cfg.retryAttempts)
    THEN [k EXCEPT !.attempt = attempt, !.pc = "fetch", !.sent = @ + 1,
                   !.requests = Append(@, AttemptRequest(cfg))]
    ELSE [k EXCEPT !.attempt = attempt, !.pc = "returned", !.result = FailureResult(cfg)]

\* register() without the look at the registered flag.
RegisterBeginIgnoresFlag(isRegistered, cfg) ==
    LoopHead([IdleCall EXCEPT !.op = "register", !.entered = TRUE], cfg, 1)

\* register() up to its first await.
RegisterBegin(isRegistered, cfg) ==
    IF isRegistered
    THEN [IdleCall EXCEPT !.op = "register", !.pc = "returned",
                          !.result = AlreadyRegisteredResult]
    ELSE LoopHead([IdleCall EXCEPT !.op = "register", !.entered = TRUE], cfg, 1)

\* What the registry's answer is, in the words of the retry contract.
RespAlready(resp) ==
    /\ resp.net = "ok" /\ resp.body = "object" /\ ~resp.success
    /\ resp.error.t = "string" /\ Includes(resp.error.s, AlreadyRegisteredPhrase)

RespFailed(resp) ==
    \/ resp.net = "fail"
    \/ resp.body = "null"
    \/ /\ ~resp.ok \/ ~resp.success
       /\ ~(resp.error.t = "string" /\ Includes(resp.error.s, AlreadyRegisteredPhrase))

Noted(k, resp) ==
    [k EXCEPT !.allFailed = @ /\ RespFailed(resp),
              !.sawAlready = @ \/ RespAlready(resp),
              !.alreadyAt = IF RespAlready(resp) /\ ~k.sawAlready THEN k.sent ELSE @]

\* register() from the answer to its pending request up to its next await
\* or its return. flag = TRUE when this.registered is set.
RegisterOnResponse(k0, cfg, resp) ==
    LET k == Noted(k0, resp)
        outcome == AttemptRegistration(resp)
        branch == RegisterBranch(outcome)
    IN  IF branch = "success"
        THEN [ call |-> [k EXCEPT !.pc = "returned",
                                  !.result = SuccessResult(outcome.vendorId)],
               flag |-> TRUE ]
        ELSE IF branch = "already"
        THEN [ call |-> [k EXCEPT !.pc = "returned", !.result = AlreadyRegisteredResult],
               flag |-> TRUE ]
        ELSE IF WaitBeforeRetry(k.attempt, cfg.retryAttempts)
        THEN [ call |-> [k EXCEPT !.pc = "delay", !.waits = @ + 1,
                                  !.waited = @ + cfg.retryDelayMs],
               flag |-> FALSE ]
        ELSE [ call |-> LoopHead(k, cfg, k.attempt + 1), flag |-> FALSE ]

\* The timer of delay() fired: attempt++ and the loop header again.
RegisterAfterDelay(k, cfg) == LoopHead(k, cfg, k.attempt + 1)

\* checkStackHealth without its try/catch: a failed probe rejects.
CheckStackHealthNoCatch(resp) ==
    IF resp \in {"error", "timeout"}
    THEN Thrown
    ELSE [kind |-> "return", value |-> (resp = "ok")]

\* checkStackHealth: response.ok, and false from the catch.
CheckStackHealth(resp) ==
    IF resp \in {"error", "timeout"}
    THEN [kind |-> "return", value |-> FALSE]
    ELSE [kind |-> "return", value |-> (resp = "ok")]

HealthBegin ==
    [IdleCall EXCEPT !.op = "checkStackHealth", !.pc = "fetch", !.sent = 1, !.since = now]

\* The abort signal given three times the time.
ProbeDeadlineLate(k) == k.since + 3 * HealthTimeoutMs

\* signal: AbortSignal.timeout(5000): the instant the pending probe is aborted.
ProbeDeadline(k) == k.since + HealthTimeoutMs

HealthOnResponse(k, resp) ==
    [k EXCEPT !.pc = "returned", !.result = CheckStackHealth(resp), !.probe = resp]

\* The urls compared as they are, without normalization.
UrlMatchesExact(vendorUrl, selfUrl) == vendorUrl = selfUrl

\* The predicate given to vendors.find.
UrlMatches(vendorUrl, selfUrl) ==
    \/ vendorUrl = selfUrl
    \/ StripTrailingSlash(vendorUrl) = StripTrailingSlash(selfUrl)

\* verifyRegistration. find visits the entries in order and stops at the
\* first match; an entry without url before it makes v.url.replace throw,
\* and the catch answers { registered: false }.
VerifyRegistration(resp, selfUrl) ==
    LET vendors == IF resp.hasVendors THEN resp.vendors ELSE <<>>
        stops == { i \in 1..Len(vendors) :
                     \/ ~vendors[i].hasUrl
                     \/ UrlMatches(vendors[i].url, selfUrl) }
        first == CHOOSE i \in stops : \A j \in stops : i <= j
    IN  IF resp.net = "fail" \/ ~resp.ok THEN [kind |-> "return", registered |-> FALSE, vendorId |-> "undefined"]
        ELSE IF stops = {} THEN [kind |-> "return", registered |-> FALSE, vendorId |-> "undefined"]
        ELSE IF ~vendors[first].hasUrl
             THEN [kind |-> "return", registered |-> FALSE, vendorId |-> "undefined"]
             ELSE [kind |-> "return", registered |-> TRUE, vendorId |-> vendors[first].id]

VerifyBegin == [IdleCall EXCEPT !.op = "verifyRegistration", !.pc = "fetch", !.sent = 1]

\* The urls the registry's answer lists (none when no list was fetched).
ListedUrls(resp) ==
    IF resp.net = "ok" /\ resp.ok /\ resp.hasVendors
    THEN { resp.vendors[n].url : n \in { m \in 1..Len(resp.vendors) : resp.vendors[m].hasUrl } }
    ELSE {}

VerifyOnResponse(k, resp, selfUrl) ==
    [k EXCEPT !.pc = "returned", !.result = VerifyRegistration(resp, selfUrl),
              !.listed = \E u \in ListedUrls(resp) : SameUpToSlash(u, selfUrl)]

\* ------------------------------------------------- initStackRegistration
InitRecord ==
    [ pc |-> "notStarted", stackAvailable |-> "unknown", verification |-> "unknown",
      probe |-> "none", threw |-> FALSE, outcome |-> "none" ]

\* The disable flag not honoured.
InitNeverSkips(disabled) == FALSE

\* if (process.env.DISABLE_STACK_REGISTRATION === "true") return;
InitSkips(disabled) == disabled

\* The result of the probe not looked at.
InitIgnoresHealth(res) ==
    IF res.kind = "throw" THEN "threw" ELSE "verify"

\* if (!stackAvailable) return;   (a rejected await leaves the function)
InitAfterHealth(res) ==
    IF res.kind = "throw" THEN "threw"
    ELSE IF ~res.value THEN "unavailable"
    ELSE "verify"

\* if (verification.registered) return;   else register()
InitAfterVerify(res) ==
    IF res.kind = "throw" THEN "threw"
    ELSE IF res.registered THEN "already"
    ELSE "register"

\* await registrationService.register(); the function ends with it.
InitAfterRegister(i, k) ==
    IF k.pc # "returned" THEN [i EXCEPT !.pc = "register"]
    ELSE IF k.result.kind = "throw" THEN [i EXCEPT !.pc = "returned", !.threw = TRUE, !.outcome = "threw"]
    ELSE [i EXCEPT !.pc = "returned",
                   !.outcome = IF k.result.success THEN "registered" ELSE "failed"]

\* What an awaited call gave back, as initStackRegistration holds it.
Seen(res) ==
    IF res.kind = "throw" THEN "unknown"
    ELSE IF "value" \in DOMAIN res THEN (IF res.value THEN "yes" ELSE "no")
    ELSE IF res.registered THEN "registered" ELSE "notRegistered"

Logged(log, before, after) ==
    IF after.sent > before.sent THEN Append(log, "register") ELSE log

InitStart ==
    /\ init.pc = "notStarted"
    /\ IF InitSkips(disableStackRegistration)
       THEN /\ init' = [init EXCEPT !.pc = "returned", !.outcome = "disabled"]
            /\ UNCHANGED <<call, initLog>>
       ELSE /\ init' = [init EXCEPT !.pc = "health"]
            /\ call' = [call EXCEPT !["startup"] = HealthBegin]
            /\ initLog' = Append(initLog, "health")
    /\ UNCHANGED <<disableStackRegistration, config, registered, payVars, auxVars>>

\* The awaited probe settles with resp, and the sequence goes on from it.
InitHealthOn(resp) ==
    /\ init.pc = "health"
    /\ LET k == HealthOnResponse(call["startup"], resp)
           next == InitAfterHealth(k.result)
       IN  IF next = "verify"
           THEN /\ init' = [init EXCEPT !.pc = "verify", !.probe = resp,
                                        !.stackAvailable = Seen(k.result)]
                /\ call' = [call EXCEPT !["startup"] = VerifyBegin]
                /\ initLog' = Append(initLog, "vendors")
           ELSE /\ init' = [init EXCEPT !.pc = "returned", !.probe = resp,
                                        !.stackAvailable = Seen(k.result),
                                        !.threw = (next = "threw"),
                                        !.outcome = next]
                /\ call' = [call EXCEPT !["startup"] = k]
                /\ UNCHANGED initLog
    /\ UNCHANGED <<disableStackRegistration, config, registered, payVars, auxVars>>

InitHealthResponse == \E resp \in HealthResponses : InitHealthOn(resp)

\* The probe settles before its abort signal fires: an answer or a network error.
HealthAnswered ==
    /\ init.pc = "health"
    /\ now < ProbeDeadline(call["startup"])
    /\ \E resp \in HealthResponses \ {"timeout"} : InitHealthOn(resp)

\* The abort signal fires and the pending fetch rejects.
HealthTimedOut ==
    /\ init.pc = "health"
    /\ now >= ProbeDeadline(call["startup"])
    /\ InitHealthOn("timeout")

\* The steps in which the clock is read to advance.
ProbeTicks == { HealthTimeoutMs \div 2 }

\* Time passes while the sequence has not begun or waits for the probe; a
\* timer that is due fires before more time passes.
ClockTick ==
    /\ \E d \in ProbeTicks :
         /\ \/ init.pc = "notStarted" /\ now + d <= HealthTimeoutMs \div 2
            \/ init.pc = "health" /\ now + d <= ProbeDeadline(call["startup"])
         /\ now' = now + d
    /\ UNCHANGED <<regVars, payVars, env, proc, registerRoute, lookup,
                   search, validation, quote, signer>>

InitVerifyResponse ==
    /\ init.pc = "verify"
    /\ \E resp \in VendorsResponses :
         LET k == VerifyOnResponse(call["startup"], resp, config["startup"].selfUrl)
             flag == registered["startup"] \/ (k.result.kind = "return" /\ k.result.registered)
             next == InitAfterVerify(k.result)
             r == RegisterBegin(flag, config["startup"])
         IN  /\ registered' = [registered EXCEPT !["startup"] = flag]
             /\ IF next = "register"
                THEN /\ init' = InitAfterRegister(
                                   [init EXCEPT !.verification = Seen(k.result)], r)
                     /\ call' = [call EXCEPT !["startup"] = r]
                     /\ initLog' = Logged(initLog, IdleCall, r)
                ELSE /\ init' = [init EXCEPT !.pc = "returned",
                                             !.verification = Seen(k.result),
                                             !.threw = (next = "threw"),
                                             !.outcome = next]
                     /\ call' = [call EXCEPT !["startup"] = k]
                     /\ UNCHANGED initLog
    /\ UNCHANGED <<disableStackRegistration, config, payVars, auxVars>>

InitRegisterResponse ==
    /\ init.pc = "register"
    /\ call["startup"].pc = "fetch"
    /\ \E resp \in RegisterResponses :
         LET step == RegisterOnResponse(call["startup"], config["startup"], resp)
         IN  /\ call' = [call EXCEPT !["startup"] = step.call]
             /\ registered' = [registered EXCEPT !["startup"] = @ \/ step.flag]
             /\ init' = InitAfterRegister(init, step.call)
             /\ initLog' = Logged(initLog, call["startup"], step.call)
    /\ UNCHANGED <<disableStackRegistration, config, payVars, auxVars>>

InitDelayElapsed ==
    /\ init.pc = "register"
    /\ call["startup"].pc = "delay"
    /\ LET k == RegisterAfterDelay(call["startup"], config["startup"])
       IN  /\ call' = [call EXCEPT !["startup"] = k]
           /\ init' = InitAfterRegister(init, k)
           /\ initLog' = Logged(initLog, call["startup"], k)
    /\ UNCHANGED <<disableStackRegistration, config, registered, payVars, auxVars>>

\* ------------------------------------------- calls on the manual instance
ManualFree == call["manual"].pc \in {"idle", "returned"}

ManualCheckStackHealth ==
    /\ ManualFree
    /\ call' = [call EXCEPT !["manual"] = HealthBegin]
    /\ UNCHANGED <<disableStackRegistration, config, registered, init, initLog, payVars, auxVars>>

ManualVerifyRegistration ==
    /\ ManualFree
    /\ call' = [call EXCEPT !["manual"] = VerifyBegin]
    /\ UNCHANGED <<disableStackRegistration, config, registered, init, initLog, payVars, auxVars>>

ManualRegister ==
    /\ ManualFree
    /\ call' = [call EXCEPT !["manual"] = RegisterBegin(registered["manual"], config["manual"])]
    /\ UNCHANGED <<disableStackRegistration, config, registered, init, initLog, payVars, auxVars>>

ManualHealthResponse ==
    /\ call["manual"].op = "checkStackHealth"
    /\ call["manual"].pc = "fetch"
    /\ \E resp \in HealthResponses :
         call' = [call EXCEPT !["manual"] = HealthOnResponse(@, resp)]
    /\ UNCHANGED <<disableStackRegistration, config, registered, init, initLog, payVars, auxVars>>

ManualVerifyResponse ==
    /\ call["manual"].op = "verifyRegistration"
    /\ call["manual"].pc = "fetch"
    /\ \E resp \in VendorsResponses :
         LET k == VerifyOnResponse(call["manual"], resp, config["manual"].selfUrl)
         IN  /\ call' = [call EXCEPT !["manual"] = k]
             /\ registered' = [registered EXCEPT !["manual"] =
                                  @ \/ (k.result.kind = "return" /\ k.result.registered)]
    /\ UNCHANGED <<disableStackRegistration, config, init, initLog, payVars, auxVars>>

ManualRegisterResponse ==
    /\ call["manual"].op = "register"
    /\ call["manual"].pc = "fetch"
    /\ \E resp \in RegisterResponses :
         LET step == RegisterOnResponse(call["manual"], config["manual"], resp)
         IN  /\ call' = [call EXCEPT !["manual"] = step.call]
             /\ registered' = [registered EXCEPT !["manual"] = @ \/ step.flag]
    /\ UNCHANGED <<disableStackRegistration, config, init, initLog, payVars, auxVars>>

ManualDelayElapsed ==
    /\ call["manual"].op = "register"
    /\ call["manual"].pc = "delay"
    /\ call' = [call EXCEPT !["manual"] = RegisterAfterDelay(@, config["manual"])]
    /\ UNCHANGED <<disableStackRegistration, config, registered, init, initLog, payVars, auxVars>>

\* ================================================================ server
\* ------------------------------------------------------------ configuration
Networks == {"base", "base-sepolia"}

\* PAYMENT_PRICE_USD, as the characters of the decimal string.
PriceChoices == { <<"0", ".", "0", "1">>, <<"0", ".", "0", "5">> }

ServerWallet == "0xServer"
OtherWallet == "0xOther"

\* A variable that is not set.
Unset == "<unset>"

\* !value, for a variable that is not set or set to the empty string.
Falsy(v) == v = Unset \/ v = ""

\* value || fallback
OrElse(v, d) == IF Falsy(v) THEN d ELSE v

\* PAYMENT_PRICE_USD || "0.01"; the price is held as its characters and
\* <<>> is the variable not set or empty.
DefaultPrice == <<"0", ".", "0", "1">>

PriceOrElse(p, d) == IF p = <<>> THEN d ELSE p

\* Environments in which every variable the server needs is set.
Environments ==
    [ GOOGLE_PLACES_API_KEY : {"key"},
      PAYMENT_WALLET_ADDRESS : {ServerWallet},
      FACILITATOR_URL : {"https://facilitator.example"},
      NETWORK : Networks,
      PAYMENT_PRICE_USD : PriceChoices,
      CDP_API_KEY_ID : {"id"},
      CDP_API_KEY_SECRET : {"secret"},
      NODE_ENV : {Unset},
      VERCEL : {Unset} ]

\* Any environment the process may be started in.
StartEnvironments ==
    [ GOOGLE_PLACES_API_KEY : {Unset, "key"},
      PAYMENT_WALLET_ADDRESS : {Unset, "", ServerWallet},
      FACILITATOR_URL : {Unset, "https://facilitator.example"},
      NETWORK : {Unset, "", "base", "base-sepolia", "avalanche", "solana",
                 "ethereum", "Base"},
      PAYMENT_PRICE_USD : {<<>>, <<"0", ".", "0", "5">>},
      CDP_API_KEY_ID : {Unset, "id"},
      CDP_API_KEY_SECRET : {Unset, "secret"},
      NODE_ENV : {Unset, "production"},
      VERCEL : {Unset, "1"} ]

\* What getConfig() returns when a variable is missing.
NullConfig ==
    [ payTo |-> "null", facilitatorUrl |-> "null", network |-> "null", priceUsd |-> <<>> ]

\* getConfig(): null when the search key, the wallet or the facilitator URL
\* is missing; NETWORK and PAYMENT_PRICE_USD have defaults.
GetConfig(e) ==
    LET missing == { k \in {"GOOGLE_PLACES_API_KEY", "PAYMENT_WALLET_ADDRESS",
                            "FACILITATOR_URL"} : Falsy(e[k]) }
    IN  IF missing # {} THEN NullConfig
        ELSE [ payTo |-> e.PAYMENT_WALLET_ADDRESS,
               facilitatorUrl |-> e.FACILITATOR_URL,
               network |-> OrElse(e.NETWORK, "base"),
               priceUsd |-> PriceOrElse(e.PAYMENT_PRICE_USD, DefaultPrice) ]

\* getNetworkForMiddleware: the configured network as it is.
GetNetworkForMiddleware(cfg) == cfg.network

\* The configured URL used for every network.
GetFacilitatorUrlOnly(cfg) == [kind |-> "url", url |-> cfg.facilitatorUrl]

\* getFacilitator: the CDP facilitator for base, the configured URL otherwise.
GetFacilitator(cfg) ==
    IF cfg.network = "base"
    THEN [kind |-> "cdp", url |-> "built-in"]
    ELSE [kind |-> "url", url |-> cfg.facilitatorUrl]

\* ----------------------------------------------------------------- startup
\* validNetworks of config/x402.ts.
ValidNetworks == {"base", "base-sepolia", "avalanche", "solana"}

\* Any network name let through.
NetworkIsValidAlways(n) == TRUE

\* validNetworks.includes(requiredEnvVars.NETWORK)
NetworkIsValid(n) == n \in ValidNetworks

\* requiredEnvVars of config/x402.ts, the price apart (its default makes it
\* always present).
RequiredEnvVars(e) ==
    [ GOOGLE_PLACES_API_KEY |-> e.GOOGLE_PLACES_API_KEY,
      PAYMENT_WALLET_ADDRESS |-> e.PAYMENT_WALLET_ADDRESS,
      FACILITATOR_URL |-> OrElse(e.FACILITATOR_URL, "https://x402.org/facilitator"),
      NETWORK |-> OrElse(e.NETWORK, "base") ]

\* The evaluation of config/x402.ts when the server imports it: the process
\* exits on a missing variable, then on a network outside validNetworks.
LoadX402Config(e) ==
    LET required == RequiredEnvVars(e)
        missing == { k \in DOMAIN required : Falsy(required[k]) }
                     \cup (IF PriceOrElse(e.PAYMENT_PRICE_USD, DefaultPrice) = <<>>
                           THEN {"PAYMENT_PRICE_USD"} ELSE {})
    IN  IF missing # {} THEN [exit |-> TRUE, diagnostic |-> "missingEnv"]
        ELSE IF ~NetworkIsValid(required.NETWORK)
        THEN [exit |-> TRUE, diagnostic |-> "invalidNetwork"]
        ELSE [exit |-> FALSE, diagnostic |-> "none"]

\* The credentials asked for only when both are missing.
CdpCredentialsMissingBoth(cfg, e) ==
    cfg.network = "base" /\ (Falsy(e.CDP_API_KEY_ID) /\ Falsy(e.CDP_API_KEY_SECRET))

\* x402Config.network === "base" && (!CDP_API_KEY_ID || !CDP_API_KEY_SECRET)
CdpCredentialsMissing(cfg, e) ==
    cfg.network = "base" /\ (Falsy(e.CDP_API_KEY_ID) \/ Falsy(e.CDP_API_KEY_SECRET))

\* process.env.NODE_ENV !== 'production' || !process.env.VERCEL
ListensLocally(e) == e.NODE_ENV # "production" \/ Falsy(e.VERCEL)

NotStarted ==
    [ pc |-> "notStarted", exitCode |-> 0, diagnostic |-> "none",
      config |-> NullConfig, facilitator |-> [kind |-> "none", url |-> "none"] ]

\* process.exit(1) after a console.error.
Exited(diagnostic) ==
    [NotStarted EXCEPT !.pc = "exited", !.exitCode = 1, !.diagnostic = diagnostic]

\* The server module from its imports to app.listen: all of it synchronous.
\* The app is "exported" when it is left to the serverless platform to serve.
StartServerResult(e) ==
    LET loaded == LoadX402Config(e)
        cfg == GetConfig(e)
    IN  IF loaded.exit THEN Exited(loaded.diagnostic)
        ELSE IF cfg = NullConfig THEN Exited("missingConfig")
        ELSE IF CdpCredentialsMissing(cfg, e) THEN Exited("missingCdp")
        ELSE [ pc |-> IF ListensLocally(e) THEN "listening" ELSE "exported",
               exitCode |-> 0, diagnostic |-> "none", config |-> cfg,
               facilitator |-> GetFacilitator(cfg) ]

Serving == proc.pc \in {"listening", "exported"}

StartServer ==
    /\ proc.pc = "notStarted"
    /\ proc' = StartServerResult(env)
    /\ x402Config' = StartServerResult(env).config
    /\ UNCHANGED <<req, facilitatorSeen, facilitatorRejectsReplay, env, registerRoute, lookup,
                 regVars, extVars>>

\* The priced route keyed by a path the server does not serve.
RouteTableWrongKey(cfg) ==
    { [ method |-> "POST", path |-> "/api/places/textsearch",
        price |-> <<"$">> \o cfg.priceUsd,
        network |-> cfg.network ] }

\* The price written into the table instead of taken from the configuration.
RouteTableFixedPrice(cfg) ==
    { [ method |-> "POST", path |-> "/api/places/text-search",
        price |-> <<"$", "0", ".", "0", "1">>,
        network |-> cfg.network ] }

\* Every route of the server priced.
RouteTablePricesAll(cfg) ==
    { [ method |-> m, path |-> p, price |-> <<"$">> \o cfg.priceUsd,
        network |-> cfg.network ] :
        m \in {"GET", "POST"},
        p \in {"/health", "/.well-known/x402", "/api/info", "/api/register",
               "/api/register/status", "/", "/api/places/text-search"} }

\* The route table given to paymentMiddleware.
RouteTable(cfg) ==
    { [ method |-> "POST", path |-> "/api/places/text-search",
        price |-> <<"$">> \o cfg.priceUsd,
        network |-> GetNetworkForMiddleware(cfg) ] }

\* The wallet given to paymentMiddleware.
MiddlewarePayTo(cfg) == cfg.payTo

\* ---------------------------------------------------------------- requests
PricedRoute == [method |-> "POST", path |-> "/api/places/text-search"]

FreeRoutes ==
    { [method |-> "GET", path |-> "/health"],
      [method |-> "GET", path |-> "/.well-known/x402"],
      [method |-> "GET", path |-> "/api/info"],
      [method |-> "POST", path |-> "/api/register"],
      [method |-> "GET", path |-> "/api/register/status"],
      [method |-> "GET", path |-> "/"] }

\* A path no handler is mounted on for that method.
OtherRoutes == { [method |-> "GET", path |-> "/api/places/text-search"] }

Routes == {PricedRoute} \cup FreeRoutes \cup OtherRoutes

Nonces == 1..MaxNonce

NoHeader ==
    [ present |-> FALSE, b64ok |-> FALSE, complete |-> FALSE,
      network |-> "none", to |-> "none", value |-> 0, nonce |-> 0 ]

\* ------------------------------------------- price to minor units (x402)
DigitValue(c) ==
    CASE c = "0" -> 0 [] c = "1" -> 1 [] c = "2" -> 2 [] c = "3" -> 3 [] c = "4" -> 4
      [] c = "5" -> 5 [] c = "6" -> 6 [] c = "7" -> 7 [] c = "8" -> 8 [] c = "9" -> 9

RECURSIVE DigitsToInt(_)
DigitsToInt(d) ==
    IF d = <<>> THEN 0
    ELSE DigitsToInt(SubSeq(d, 1, Len(d) - 1)) * 10 + DigitValue(d[Len(d)])

RECURSIVE PadRight(_, _)
PadRight(d, n) ==
    IF Len(d) >= n THEN SubSeq(d, 1, n) ELSE PadRight(Append(d, "0"), n)

RECURSIVE Pow10(_)
Pow10(n) == IF n = 0 THEN 1 ELSE 10 * Pow10(n - 1)

\* The price rounded down to whole cents first.
PriceToAtomicCents(price) ==
    LET p == IF Len(price) > 0 /\ price[1] = "$" THEN Tail(price) ELSE price
        dots == { i \in 1..Len(p) : p[i] = "." }
        dot == IF dots = {} THEN Len(p) + 1 ELSE CHOOSE i \in dots : \A j \in dots : i <= j
        whole == SubSeq(p, 1, dot - 1)
        frac == SubSeq(p, dot + 1, Len(p))
    IN  DigitsToInt(whole) * Pow10(UsdcDecimals)
        + DigitsToInt(PadRight(PadRight(frac, 2), UsdcDecimals))

\* "$0.01" -> 10000: the amount in the smallest unit of a 6-decimal coin.
PriceToAtomic(price) ==
    LET p == IF Len(price) > 0 /\ price[1] = "$" THEN Tail(price) ELSE price
        dots == { i \in 1..Len(p) : p[i] = "." }
        dot == IF dots = {} THEN Len(p) + 1 ELSE CHOOSE i \in dots : \A j \in dots : i <= j
        whole == SubSeq(p, 1, dot - 1)
        frac == SubSeq(p, dot + 1, Len(p))
    IN  DigitsToInt(whole) * Pow10(UsdcDecimals) + DigitsToInt(PadRight(frac, UsdcDecimals))

\* ------------------------------------------------- paymentMiddleware (x402)
\* The payment requirement of a priced route.
BuildRequirement(entry, payTo) ==
    [ scheme |-> "exact", network |-> entry.network, payTo |-> payTo,
      maxAmountRequired |-> PriceToAtomic(entry.price), resource |-> entry.path ]

\* The X-Payment header decodes and is a proof for this requirement.
DecodesFor(header, requirement) ==
    /\ header.b64ok
    /\ header.complete
    /\ header.network = requirement.network
    /\ header.to = requirement.payTo
    /\ header.value = requirement.maxAmountRequired

FindMatchingRoute(table, route) ==
    { e \in table : e.method = route.method /\ e.path = route.path }

\* A proof that does not decode for the route challenged again instead of refused.
MiddlewareChallengesBadProof(table, payTo, route, header) ==
    LET matching == FindMatchingRoute(table, route)
        requirement == BuildRequirement(CHOOSE e \in matching : TRUE, payTo)
    IN  IF matching = {} THEN [do |-> "next", status |-> 0, accepts |-> <<>>]
        ELSE IF ~header.present \/ ~DecodesFor(header, requirement)
        THEN [do |-> "respond", status |-> 402, accepts |-> <<requirement>>]
        ELSE [do |-> "verify", status |-> 0, accepts |-> <<requirement>>]

\* The middleware from the arrival of a request to its first await:
\* unpriced routes pass, a missing proof is challenged, a proof that does not
\* decode for the route is refused, any other proof goes to the facilitator.
MiddlewareOnArrival(table, payTo, route, header) ==
    LET matching == FindMatchingRoute(table, route)
        requirement == BuildRequirement(CHOOSE e \in matching : TRUE, payTo)
    IN  IF matching = {} THEN [do |-> "next", status |-> 0, accepts |-> <<>>]
        ELSE IF ~header.present
        THEN [do |-> "respond", status |-> 402, accepts |-> <<requirement>>]
        ELSE IF ~DecodesFor(header, requirement)
        THEN [do |-> "respond", status |-> 400, accepts |-> <<>>]
        ELSE [do |-> "verify", status |-> 0, accepts |-> <<requirement>>]

\* Only an unreachable facilitator keeps the request out.
MiddlewareAdmitsRefused(verdict, accepts) ==
    IF verdict # "unreachable"
    THEN [do |-> "next", status |-> 0, accepts |-> <<>>]
    ELSE [do |-> "respond", status |-> 402, accepts |-> accepts]

\* An unreachable facilitator reported as a server error.
MiddlewareFailsOnUnreachable(verdict, accepts) ==
    IF verdict = "valid"
    THEN [do |-> "next", status |-> 0, accepts |-> <<>>]
    ELSE IF verdict = "unreachable"
    THEN [do |-> "respond", status |-> 503, accepts |-> <<>>]
    ELSE [do |-> "respond", status |-> 402, accepts |-> accepts]

\* The middleware after the facilitator's verdict (or its failure to answer).
MiddlewareOnVerdict(verdict, accepts) ==
    IF verdict = "valid"
    THEN [do |-> "next", status |-> 0, accepts |-> <<>>]
    ELSE [do |-> "respond", status |-> 402, accepts |-> accepts]

\* The facilitator: it may be unreachable, it may refuse any proof, and it
\* approves a proof only if it does not refuse replays or has not seen the nonce.
Verdicts(nonce) ==
    {"unreachable", "invalid"}
    \cup (IF facilitatorRejectsReplay /\ nonce \in facilitatorSeen THEN {} ELSE {"valid"})

\* ------------------------------------------------------------ the handlers
Bodies == { [query |-> <<"c", "o", "f", "f", "e", "e">>], [query |-> <<>>] }

\* A field of a JSON body that is not undefined.
Has(body, field) == field \in DOMAIN body

\* String.prototype.trim, over the characters of the string.
RECURSIVE TrimStart(_)
TrimStart(s) == IF Len(s) > 0 /\ s[1] = " " THEN TrimStart(Tail(s)) ELSE s

RECURSIVE TrimEnd(_)
TrimEnd(s) ==
    IF Len(s) > 0 /\ s[Len(s)] = " " THEN TrimEnd(SubSeq(s, 1, Len(s) - 1)) ELSE s

Trim(s) == TrimEnd(TrimStart(s))

\* String.prototype.split on a one-character separator.
RECURSIVE Split(_, _)
Split(s, sep) ==
    LET at == { i \in 1..Len(s) : s[i] = sep }
        first == CHOOSE i \in at : \A j \in at : i <= j
    IN  IF at = {} THEN <<s>>
        ELSE <<SubSeq(s, 1, first - 1)>> \o Split(SubSeq(s, first + 1, Len(s)), sep)

DecimalDigits == {"0", "1", "2", "3", "4", "5", "6", "7", "8", "9"}

CharDigit(c) ==
    CASE c = "0" -> 0 [] c = "1" -> 1 [] c = "2" -> 2 [] c = "3" -> 3 [] c = "4" -> 4
      [] c = "5" -> 5 [] c = "6" -> 6 [] c = "7" -> 7 [] c = "8" -> 8 [] c = "9" -> 9

RECURSIVE DigitsValue(_)
DigitsValue(d) ==
    IF d = <<>> THEN 0
    ELSE DigitsValue(SubSeq(d, 1, Len(d) - 1)) * 10 + CharDigit(d[Len(d)])

\* The digits of s from position i on.
RECURSIVE DigitRun(_, _)
DigitRun(s, i) ==
    IF i <= Len(s) /\ s[i] \in DecimalDigits THEN 1 + DigitRun(s, i + 1) ELSE 0

\* A number as parseFloat gives it: NaN, or a sign, the integer part and
\* whether a non-zero fraction follows it.
NaN == [nan |-> TRUE, neg |-> FALSE, int |-> 0, frac |-> FALSE]

\* parseFloat of an already trimmed string without exponent: the longest
\* prefix sign? digits* (. digits*)? that holds a digit; what follows it is
\* ignored.
ParseFloat(s) ==
    LET signed == Len(s) > 0 /\ s[1] \in {"-", "+"}
        start == IF signed THEN 2 ELSE 1
        whole == DigitRun(s, start)
        dot == start + whole
        hasDot == dot <= Len(s) /\ s[dot] = "."
        fracLen == IF hasDot THEN DigitRun(s, dot + 1) ELSE 0
    IN  IF whole + fracLen = 0 THEN NaN
        ELSE [ nan |-> FALSE,
               neg |-> signed /\ s[1] = "-",
               int |-> DigitsValue(SubSeq(s, start, dot - 1)),
               frac |-> \E i \in (dot + 1)..(dot + fracLen) : s[i] # "0" ]

\* v > k for k >= 0, and v < -k.
Above(v, k) == ~v.neg /\ (v.int > k \/ (v.int = k /\ v.frac))

Below(v, k) == v.neg /\ (v.int > k \/ (v.int = k /\ v.frac))

\* A string value of a JSON body, and a value of another type.
Str(chars) == [t |-> "string", s |-> chars]

Num(n) == [t |-> "number", n |-> n]

QueryErrors(body) ==
    IF ~Has(body, "query") \/ body.query = <<>>
    THEN <<"Missing required field: 'query'">>
    ELSE IF Trim(body.query) = <<>> THEN <<"Field 'query' cannot be empty">>
    ELSE IF Len(body.query) > QueryLengthLimit
    THEN <<"Field 'query' must be less than 2048 characters">>
    ELSE <<>>

\* The longitude never checked.
LocationErrorsLatitudeOnly(body) ==
    IF ~Has(body, "location") THEN <<>>
    ELSE IF body.location.t # "string"
    THEN <<"Field 'location' must be a string in 'lat,lng' format">>
    ELSE LET parts == Split(body.location.s, ",")
             lat == ParseFloat(Trim(parts[1]))
             lng == ParseFloat(Trim(parts[2]))
         IN  IF Len(parts) # 2
             THEN <<"Field 'location' must be in 'lat,lng' format (e.g., '37.7749,-122.4194')">>
             ELSE IF lat.nan \/ lng.nan
             THEN <<"Field 'location' must contain valid latitude and longitude numbers">>
             ELSE IF Below(lat, 90) \/ Above(lat, 90)
             THEN <<"Latitude must be between -90 and 90">>
             ELSE <<>>

LocationErrors(body) ==
    IF ~Has(body, "location") THEN <<>>
    ELSE IF body.location.t # "string"
    THEN <<"Field 'location' must be a string in 'lat,lng' format">>
    ELSE LET parts == Split(body.location.s, ",")
             lat == ParseFloat(Trim(parts[1]))
             lng == ParseFloat(Trim(parts[2]))
         IN  IF Len(parts) # 2
             THEN <<"Field 'location' must be in 'lat,lng' format (e.g., '37.7749,-122.4194')">>
             ELSE IF lat.nan \/ lng.nan
             THEN <<"Field 'location' must contain valid latitude and longitude numbers">>
             ELSE IF Below(lat, 90) \/ Above(lat, 90)
             THEN <<"Latitude must be between -90 and 90">>
             ELSE IF Below(lng, 180) \/ Above(lng, 180)
             THEN <<"Longitude must be between -180 and 180">>
             ELSE <<>>

RadiusErrors(body) ==
    IF ~Has(body, "radius") THEN <<>>
    ELSE IF body.radius.t # "number" THEN <<"Field 'radius' must be a number">>
    ELSE IF body.radius.n < 0 THEN <<"Field 'radius' must be non-negative">>
    ELSE IF body.radius.n > RadiusLimit
    THEN <<"Field 'radius' must be 50000 meters or less">>
    ELSE <<>>

\* validateRequest of a JSON object whose query, when present, is a string.
ValidateRequest(body) ==
    QueryErrors(body) \o LocationErrors(body) \o RadiusErrors(body)

NewRequest ==
    [ pc |-> "absent", route |-> PricedRoute, header |-> NoHeader,
      body |-> [query |-> <<>>], state |-> "Unchallenged", status |-> 0,
      accepts |-> <<>>, content |-> "none", handlerRan |-> FALSE,
      validated |-> FALSE, searched |-> FALSE, facilitatorCalls |-> 0,
      facilitator |-> "none", verdict |-> "none" ]

Respond(r, status, content) ==
    [r EXCEPT !.pc = "done", !.status = status, !.content = content]

\* Which handler Express runs for a request the middleware passed on.
ExpressHandler(route) ==
    CASE route = [method |-> "GET", path |-> "/health"] -> "health"
      [] route = [method |-> "GET", path |-> "/.well-known/x402"] -> "discovery"
      [] route = [method |-> "GET", path |-> "/api/info"] -> "info"
      [] route = [method |-> "POST", path |-> "/api/places/text-search"] -> "textSearch"
      [] route = [method |-> "POST", path |-> "/api/register"] -> "register"
      [] route = [method |-> "GET", path |-> "/api/register/status"] -> "registerStatus"
      [] route = [method |-> "GET", path |-> "/"] -> "root"
      [] OTHER -> "notFound"

\* app.post('/api/places/text-search') up to its await of textSearch.
TextSearchEntry(r) ==
    IF Len(ValidateRequest(r.body)) > 0
    THEN Respond([r EXCEPT !.handlerRan = TRUE, !.validated = TRUE], 400, "validationError")
    ELSE [r EXCEPT !.handlerRan = TRUE, !.validated = TRUE, !.searched = TRUE,
                   !.pc = "searching"]

\* The rest of the handler: the results with the payment metadata, or the
\* catch branch (no response was sent before it).
TextSearchOnAnswer(r, answer) ==
    IF answer = "results"
    THEN Respond(r, 200, "results")
    ELSE Respond(r, 500, "serverError")

\* The handler of a request that passed the middleware, up to its first await.
Dispatch(r) ==
    LET h == ExpressHandler(r.route)
    IN  CASE h = "textSearch" -> TextSearchEntry(r)
          [] h \in {"health", "discovery", "info"} -> Respond(r, 200, h)
          [] h = "root" -> Respond(r, 302, "redirect")
          [] h \in {"register", "registerStatus"} -> [r EXCEPT !.pc = "registry"]
          [] OTHER -> Respond(r, 404, "notFound")

\* POST /api/register and GET /api/register/status after the registry's answer.
RegisterRouteOnAnswer(r, answer) ==
    IF ExpressHandler(r.route) = "register"
    THEN CASE answer = "fail" -> Respond(r, 500, "registerError")
           [] answer \in {"notOk", "refused"} -> Respond(r, 400, "registerError")
           [] OTHER -> Respond(r, 200, "registered")
    ELSE IF answer = "fail" THEN Respond(r, 500, "statusError")
         ELSE Respond(r, 200, "status")

\* A proof being verified for one request keeps out a second request that
\* carries it: the server remembers the proofs in flight.
OnArrivalLocksProof(cfg, route, header, body) ==
    LET r == [NewRequest EXCEPT !.route = route, !.header = header, !.body = body]
        mw == MiddlewareOnArrival(RouteTable(cfg), MiddlewarePayTo(cfg), route, header)
        inFlight == \E m \in 1..MaxRequests :
                       req[m].pc = "verifying" /\ req[m].header = header
    IN  IF mw.do = "next" THEN Dispatch([r EXCEPT !.state = "Bypassed"])
        ELSE IF mw.do = "respond"
        THEN [ Respond(r, mw.status, "paymentRequired") EXCEPT
                 !.state = IF mw.status = 402 THEN "Challenged" ELSE "Rejected",
                 !.accepts = mw.accepts ]
        ELSE IF inFlight
        THEN [ Respond(r, 402, "paymentRequired") EXCEPT
                 !.state = "Rejected", !.accepts = mw.accepts ]
        ELSE [r EXCEPT !.pc = "verifying", !.state = "Verifying",
                       !.accepts = mw.accepts, !.facilitatorCalls = 1,
                       !.facilitator = GetFacilitator(cfg).kind]

\* The server from the arrival of a request to its first await.
OnArrival(cfg, route, header, body) ==
    LET r == [NewRequest EXCEPT !.route = route, !.header = header, !.body = body]
        mw == MiddlewareOnArrival(RouteTable(cfg), MiddlewarePayTo(cfg), route, header)
    IN  IF mw.do = "next" THEN Dispatch([r EXCEPT !.state = "Bypassed"])
        ELSE IF mw.do = "respond"
        THEN [ Respond(r, mw.status, "paymentRequired") EXCEPT
                 !.state = IF mw.status = 402 THEN "Challenged" ELSE "Rejected",
                 !.accepts = mw.accepts ]
        ELSE [r EXCEPT !.pc = "verifying", !.state = "Verifying",
                       !.accepts = mw.accepts, !.facilitatorCalls = 1,
                       !.facilitator = GetFacilitator(cfg).kind]

OnVerdict(r0, verdict) ==
    LET r == [r0 EXCEPT !.verdict = verdict]
        mw == MiddlewareOnVerdict(verdict, r.accepts)
    IN  IF mw.do = "next" THEN Dispatch([r EXCEPT !.state = "Admitted", !.accepts = <<>>])
        ELSE [ Respond(r, mw.status, "paymentRequired") EXCEPT
                 !.state = "Rejected", !.accepts = mw.accepts ]

\* The proofs a caller may send: a proof for this route (any nonce), and such
\* a proof with one thing wrong. Free routes are asked for without a proof,
\* and GET /health with one as well.
OtherNetwork(cfg) == CHOOSE n \in Networks : n # cfg.network
OtherPrice(cfg) == CHOOSE p \in PriceChoices : p # cfg.priceUsd

GoodHeader(cfg, nonce) ==
    [ present |-> TRUE, b64ok |-> TRUE, complete |-> TRUE,
      network |-> cfg.network, to |-> cfg.payTo,
      value |-> PriceToAtomic(cfg.priceUsd), nonce |-> nonce ]

BadHeaders(cfg) ==
    { [GoodHeader(cfg, 1) EXCEPT !.b64ok = FALSE],
      [GoodHeader(cfg, 1) EXCEPT !.complete = FALSE],
      [GoodHeader(cfg, 1) EXCEPT !.network = OtherNetwork(cfg)],
      [GoodHeader(cfg, 1) EXCEPT !.to = OtherWallet],
      [GoodHeader(cfg, 1) EXCEPT !.value = PriceToAtomic(OtherPrice(cfg))] }

Inputs(cfg) ==
    { [route |-> PricedRoute, header |-> h, body |-> b] :
        h \in {NoHeader} \cup { GoodHeader(cfg, n) : n \in Nonces } \cup BadHeaders(cfg),
        b \in Bodies }
    \cup
    { [route |-> rt, header |-> NoHeader, body |-> [query |-> <<>>]] :
        rt \in FreeRoutes \cup OtherRoutes }
    \cup
    { [ route |-> [method |-> "GET", path |-> "/health"],
        header |-> GoodHeader(cfg, 1), body |-> [query |-> <<>>] ] }

\* The requests sent to a server whose start is being followed: the priced
\* route without and with a proof, and a free route.
StartInputs(cfg) ==
    { [route |-> PricedRoute, header |-> h, body |-> [query |-> <<"c", "o", "f", "f", "e", "e">>]] :
        h \in {NoHeader, GoodHeader(cfg, 1)} }
    \cup
    { [ route |-> [method |-> "GET", path |-> "/health"],
        header |-> NoHeader, body |-> [query |-> <<>>] ] }

\* A request reaches the server: only a process that is serving receives it.
ArriveWith(inputs) ==
    /\ Serving
    /\ \E n \in 1..MaxRequests :
         /\ req[n].pc = "absent"
         /\ n > 1 => req[n - 1].pc # "absent"
         /\ \E in \in inputs :
              req' = [req EXCEPT ![n] = OnArrival(x402Config, in.route, in.header, in.body)]
    /\ UNCHANGED <<x402Config, facilitatorSeen, facilitatorRejectsReplay, regVars, auxVars>>

Arrive == ArriveWith(Inputs(x402Config))

StartArrive == ArriveWith(StartInputs(x402Config))

FacilitatorAnswer ==
    /\ \E n \in 1..MaxRequests :
         /\ req[n].pc = "verifying"
         /\ \E verdict \in Verdicts(req[n].header.nonce) :
              /\ req' = [req EXCEPT ![n] = OnVerdict(@, verdict)]
              /\ facilitatorSeen' =
                   IF verdict = "valid"
                   THEN facilitatorSeen \cup {req[n].header.nonce}
                   ELSE facilitatorSeen
    /\ UNCHANGED <<x402Config, facilitatorRejectsReplay, regVars, auxVars>>

SearchAnswer ==
    /\ \E n \in 1..MaxRequests :
         /\ req[n].pc = "searching"
         /\ \E answer \in {"results", "error"} :
              req' = [req EXCEPT ![n] = TextSearchOnAnswer(@, answer)]
    /\ UNCHANGED <<x402Config, facilitatorSeen, facilitatorRejectsReplay, regVars, auxVars>>

RegistryAnswer ==
    /\ \E n \in 1..MaxRequests :
         /\ req[n].pc = "registry"
         /\ \E answer \in {"fail", "notOk", "refused", "success"} :
              req' = [req EXCEPT ![n] = RegisterRouteOnAnswer(@, answer)]
    /\ UNCHANGED <<x402Config, facilitatorSeen, facilitatorRejectsReplay, regVars, auxVars>>

PayInit ==
    /\ env \in Environments
    /\ proc = StartServerResult(env)
    /\ x402Config = GetConfig(env)
    /\ req = [n \in 1..MaxRequests |-> NewRequest]
    /\ facilitatorSeen = {}
    /\ facilitatorRejectsReplay \in BOOLEAN

PayNext ==
    \/ Arrive
    \/ FacilitatorAnswer
    \/ SearchAnswer
    \/ RegistryAnswer

\* ------------------------------------------------- POST /api/register
\* x402Config of config/x402.ts, which the register route imports.
X402ConfigFromFile(e) ==
    [ payTo |-> e.PAYMENT_WALLET_ADDRESS,
      facilitatorUrl |-> OrElse(e.FACILITATOR_URL, "https://x402.org/facilitator"),
      network |-> OrElse(e.NETWORK, "base"),
      priceUsd |-> PriceOrElse(e.PAYMENT_PRICE_USD, DefaultPrice) ]

\* paymentRoutes of config/x402.ts: the one priced route with its schemas.
PaymentRoutes(cfg) ==
    << [ key |-> <<"POST", "/api/places/text-search">>,
         price |-> <<"$">> \o cfg.priceUsd,
         network |-> cfg.network,
         description |-> "Search for places",
         inputSchema |-> "inputSchema",
         outputSchema |-> "outputSchema" ] >>

\* config.price.replace("$", "")
WithoutDollar(price) ==
    IF \E i \in 1..Len(price) : price[i] = "$"
    THEN LET first == CHOOSE i \in 1..Len(price) :
                        price[i] = "$" /\ \A j \in 1..(i - 1) : price[j] # "$"
         IN  SubSeq(price, 1, first - 1) \o SubSeq(price, first + 1, Len(price))
    ELSE price

\* process.env.SERVER_URL || `http://localhost:${PORT || 3000}`
ServerUrl == <<"a">>

\* The request the route sends: the payload built from x402Config and
\* paymentRoutes, posted to the Stack at FACILITATOR_URL.
RouteRegistrationRequest(e) ==
    LET cfg == X402ConfigFromFile(e)
        routes == PaymentRoutes(cfg)
        facilitatorUrl == OrElse(e.FACILITATOR_URL, "http://localhost:3005")
    IN  [ method |-> "POST",
          url |-> <<facilitatorUrl, "/api/vendors/register">>,
          body |-> [ url |-> ServerUrl,
                     name |-> "Places",
                     description |-> "serviceDiscovery.description",
                     category |-> "api",
                     tags |-> <<"places", "search", "google", "location", "maps", "x402">>,
                     walletAddress |-> cfg.payTo,
                     network |-> cfg.network,
                     priceUsd |-> cfg.priceUsd,
                     facilitatorUrl |-> facilitatorUrl,
                     endpoints |-> [ n \in 1..Len(routes) |->
                                       [ path |-> routes[n].key[2],
                                         method |-> routes[n].key[1],
                                         description |-> routes[n].description,
                                         priceUsd |-> WithoutDollar(routes[n].price),
                                         inputSchema |-> routes[n].inputSchema,
                                         outputSchema |-> routes[n].outputSchema ] ] ] ]

\* The handler up to its await of fetch.
PostRegisterBegin(e) ==
    [IdleRoute EXCEPT !.pc = "fetch", !.sent = 1,
                      !.requests = <<RouteRegistrationRequest(e)>>]

\* The handler from the registry's answer to its response. A rejected
\* fetch, a body that is not JSON and a null body end in the catch (500);
\* a status that is not OK or success: false is answered 400.
PostRegisterOnResponse(h, resp) ==
    LET noted == [h EXCEPT !.sawAlready = RespAlready(resp)]
    IN  IF resp.net = "fail" \/ resp.body = "null"
        THEN [noted EXCEPT !.pc = "done", !.status = 500, !.success = FALSE]
        ELSE IF ~resp.ok \/ ~resp.success
        THEN [noted EXCEPT !.pc = "done", !.status = 400, !.success = FALSE]
        ELSE [noted EXCEPT !.pc = "done", !.status = 200, !.success = TRUE]

\* A POST /api/register request arrives; the second slot is taken only
\* while the first is waiting for the registry.
PostRegister ==
    /\ Serving
    /\ \E s \in RouteSlots :
         /\ registerRoute[s].pc \in {"idle", "done"}
         /\ s > 1 => registerRoute[s - 1].pc = "fetch"
         /\ registerRoute' = [registerRoute EXCEPT ![s] = PostRegisterBegin(env)]
    /\ UNCHANGED <<regVars, payVars, env, proc, lookup, extVars>>

PostRegisterResponse ==
    /\ \E s \in RouteSlots :
         /\ registerRoute[s].pc = "fetch"
         /\ \E resp \in RegisterResponses :
              registerRoute' = [registerRoute EXCEPT ![s] = PostRegisterOnResponse(@, resp)]
    /\ UNCHANGED <<regVars, payVars, env, proc, lookup, extVars>>

\* --------------------------------------------- GET /api/register/status
\* The handler after the registry's answer to GET /api/vendors. find stops
\* at the first entry that matches; an entry without url before it makes
\* v.url.replace throw, and the catch answers 500.
RegisterStatus(resp, serverUrl) ==
    LET vendors == IF resp.hasVendors THEN resp.vendors ELSE <<>>
        stops == { i \in 1..Len(vendors) :
                     \/ ~vendors[i].hasUrl
                     \/ vendors[i].url = serverUrl
                     \/ StripTrailingSlash(vendors[i].url) = StripTrailingSlash(serverUrl) }
        first == CHOOSE i \in stops : \A j \in stops : i <= j
    IN  IF resp.net = "fail"
        THEN [kind |-> "return", status |-> 500, registered |-> FALSE, vendorId |-> "undefined"]
        ELSE IF ~resp.ok \/ stops = {}
        THEN [kind |-> "return", status |-> 200, registered |-> FALSE, vendorId |-> "undefined"]
        ELSE IF ~vendors[first].hasUrl
        THEN [kind |-> "return", status |-> 500, registered |-> FALSE, vendorId |-> "undefined"]
        ELSE [kind |-> "return", status |-> 200, registered |-> TRUE,
              vendorId |-> vendors[first].id]

\* One vendor-list answer given to verifyRegistration and to the status route.
LookupVerify ==
    /\ lookup.pc = "asked"
    /\ lookup.verify = NoResult
    /\ LET result == VerifyRegistration(lookup.resp, lookup.selfUrl)
       IN  /\ lookup' = [lookup EXCEPT !.verify = result]
           /\ registered' = [registered EXCEPT !["manual"] = @ \/ result.registered]
    /\ UNCHANGED <<disableStackRegistration, config, call, init, initLog,
                   payVars, env, proc, registerRoute, extVars>>

LookupStatus ==
    /\ lookup.pc = "asked"
    /\ lookup.status = NoResult
    /\ lookup' = [lookup EXCEPT !.status = RegisterStatus(lookup.resp, lookup.selfUrl)]
    /\ UNCHANGED <<regVars, payVars, env, proc, registerRoute, extVars>>

\* ------------------------------------------------------------ specification
RegInit ==
    /\ disableStackRegistration \in BOOLEAN
    /\ \E u \in SelfUrls, a \in AttemptOptions, d \in DelayOptions :
         config = [ startup |-> NewService(u, {StartupRetryAttempts}, {StartupRetryDelayMs}),
                    manual |-> NewService(u, a, d) ]
    /\ registered = [i \in Instances |-> FALSE]
    /\ call = [i \in Instances |-> IdleCall]
    /\ init = InitRecord
    /\ initLog = <<>>

RegNext ==
    \/ InitStart
    \/ InitHealthResponse
    \/ InitVerifyResponse
    \/ InitRegisterResponse
    \/ InitDelayElapsed
    \/ ManualCheckStackHealth
    \/ ManualVerifyRegistration
    \/ ManualRegister
    \/ ManualHealthResponse
    \/ ManualVerifyResponse
    \/ ManualRegisterResponse
    \/ ManualDelayElapsed

\* The registration side alone: the server has received nothing.
RegOnlyInit ==
    /\ RegInit
    /\ env = CHOOSE e \in Environments : TRUE
    /\ proc = StartServerResult(env)
    /\ x402Config = GetConfig(env)
    /\ registerRoute = [s \in RouteSlots |-> IdleRoute]
    /\ lookup = NoLookup
    /\ req = [n \in 1..MaxRequests |-> NewRequest]
    /\ facilitatorSeen = {}
    /\ facilitatorRejectsReplay = TRUE
    /\ ExtIdle

\* The server alone: registration has not been started.
PayOnlyInit ==
    /\ PayInit
    /\ disableStackRegistration = FALSE
    /\ config = [ i \in Instances |->
                     NewService(CHOOSE u \in SelfUrls : TRUE, {}, {}) ]
    /\ registered = [i \in Instances |-> FALSE]
    /\ call = [i \in Instances |-> IdleCall]
    /\ init = InitRecord
    /\ initLog = <<>>
    /\ registerRoute = [s \in RouteSlots |-> IdleRoute]
    /\ lookup = NoLookup
    /\ ExtIdle

\* The start of the server followed from its environment to its first requests.
StartInit ==
    /\ env \in StartEnvironments
    /\ proc = NotStarted
    /\ x402Config = NullConfig
    /\ req = [n \in 1..MaxRequests |-> NewRequest]
    /\ facilitatorSeen = {}
    /\ facilitatorRejectsReplay = TRUE
    /\ disableStackRegistration = FALSE
    /\ config = [ i \in Instances |->
                     NewService(CHOOSE u \in SelfUrls : TRUE, {}, {}) ]
    /\ registered = [i \in Instances |-> FALSE]
    /\ call = [i \in Instances |-> IdleCall]
    /\ init = InitRecord
    /\ initLog = <<>>
    /\ registerRoute = [s \in RouteSlots |-> IdleRoute]
    /\ lookup = NoLookup
    /\ ExtIdle

StartNext ==
    \/ StartServer
    \/ StartArrive
    \/ FacilitatorAnswer
    \/ SearchAnswer

\* One process: the startup sequence, the exported stackRegistration (a
\* service constructed without retry options) and the register route.
ProcInit ==
    /\ disableStackRegistration \in BOOLEAN
    /\ config = [ startup |-> NewService(ServerUrl, {StartupRetryAttempts},
                                         {StartupRetryDelayMs}),
                  manual |-> NewService(ServerUrl, {}, {}) ]
    /\ registered = [i \in Instances |-> FALSE]
    /\ call = [i \in Instances |-> IdleCall]
    /\ init = InitRecord
    /\ initLog = <<>>
    /\ env = CHOOSE e \in Environments : TRUE
    /\ proc = StartServerResult(env)
    /\ x402Config = GetConfig(env)
    /\ req = [n \in 1..MaxRequests |-> NewRequest]
    /\ facilitatorSeen = {}
    /\ facilitatorRejectsReplay = TRUE
    /\ registerRoute = [s \in RouteSlots |-> IdleRoute]
    /\ lookup = NoLookup
    /\ ExtIdle

ProcNext ==
    \/ RegNext
    \/ PostRegister
    \/ PostRegisterResponse

\* Every vendor-list answer and self URL, for the two lookups.
LookupInit ==
    /\ \E resp \in VendorsResponses, u \in SelfUrls :
         lookup = [ pc |-> "asked", resp |-> resp, selfUrl |-> u,
                    verify |-> NoResult, status |-> NoResult ]
    /\ disableStackRegistration = FALSE
    /\ config = [ i \in Instances |-> NewService(ServerUrl, {}, {}) ]
    /\ registered = [i \in Instances |-> FALSE]
    /\ call = [i \in Instances |-> IdleCall]
    /\ init = InitRecord
    /\ initLog = <<>>
    /\ env = CHOOSE e \in Environments : TRUE
    /\ proc = StartServerResult(env)
    /\ x402Config = GetConfig(env)
    /\ req = [n \in 1..MaxRequests |-> NewRequest]
    /\ facilitatorSeen = {}
    /\ facilitatorRejectsReplay = TRUE
    /\ registerRoute = [s \in RouteSlots |-> IdleRoute]
    /\ ExtIdle

LookupNext ==
    \/ LookupVerify
    \/ LookupStatus

Init ==
    /\ RegInit
    /\ PayInit
    /\ registerRoute = [s \in RouteSlots |-> IdleRoute]
    /\ lookup = NoLookup
    /\ ExtIdle

Next == RegNext \/ PayNext

Spec == Init /\ [][Next]_vars

RegSpec == RegOnlyInit /\ [][RegNext]_vars

PaySpec == PayOnlyInit /\ [][PayNext]_vars

StartSpec == StartInit /\ [][StartNext]_vars

ProcSpec == ProcInit /\ [][ProcNext]_vars

LookupSpec == LookupInit /\ [][LookupNext]_vars

\* --------------------------------------------------- the request validator
\* Longest location string given to validateRequest, besides the examples.
MaxLocationLen == 5

Coffee == <<"c", "o", "f", "f", "e", "e">>

LocationAlphabet == {"1", "9", "-", ".", ",", " ", "x"}

ExampleLocations ==
    { <<"3", "7", ".", "7", "7", "4", "9", ",", "-", "1", "2", "2", ".", "4", "1", "9", "4">>,
      <<"3", "7", ".", "7", "7", "4", "9">>,
      <<"2", "0", "0", ",", "-", "1", "2", "2", ".", "4", "1", "9", "4">>,
      <<"3", "7", ".", "7", "7", "4", "9", ",", "-", "2", "0", "0", ".", "5">>,
      <<"9", "0", ".", "0", ",", "-", "1", "8", "0">> }

LocationStrings ==
    UNION { [1..k -> LocationAlphabet] : k \in 0..MaxLocationLen } \cup ExampleLocations

\* The bodies given to validateRequest: every location, and some bodies that
\* differ in the other fields.
ValidatedBodies ==
    { [query |-> Coffee, location |-> Str(l)] : l \in LocationStrings }
    \cup { [query |-> Coffee], [query |-> <<>>], [query |-> <<" ">>],
           [query |-> Coffee, location |-> Num(5)],
           [query |-> Coffee, radius |-> Num(2000)],
           [query |-> Coffee, radius |-> Num(0 - 1)],
           [query |-> Coffee, radius |-> Num(50001)],
           [query |-> Coffee, radius |-> Str(<<"2">>)],
           [query |-> <<>>, location |-> Str(<<"1">>), radius |-> Num(50001)],
           [query |-> Coffee, radius |-> Num(0)],
           [query |-> Coffee, language |-> Str(<<"e", "n">>)],
           [query |-> Coffee, region |-> Str(<<"U", "S">>)],
           [query |-> Coffee, limit |-> Num(5)] }

\* placesService.validateRequest(body)
ValidateBody ==
    /\ validation.pc = "given"
    /\ validation' = [validation EXCEPT !.pc = "validated",
                                        !.errors = ValidateRequest(validation.body)]
    /\ UNCHANGED <<regVars, payVars, env, proc, registerRoute, lookup,
                   search, quote, signer, now>>

\* ------------------------------------------------------ the search provider
\* What the Places API may answer to the fetch of textSearch: the fetch
\* rejected, a status that is not 2xx, a body that is not JSON, and JSON with
\* a status and an optional error_message (a text of the provider's choice).
Answer(kind, httpStatus, statusText, status, errorMessage, results) ==
    [ kind |-> kind, httpStatus |-> httpStatus, statusText |-> statusText,
      status |-> status, errorMessage |-> errorMessage, results |-> results ]

ProviderAnswers ==
    { Answer("rejected", "0", <<>>, "none", <<>>, <<>>),
      Answer("http", "500", <<"Internal", "Server", "Error">>, "none", <<>>, <<>>),
      Answer("notJson", "200", <<"OK">>, "none", <<>>, <<>>),
      Answer("json", "200", <<"OK">>, "OK", <<>>, <<"place1", "place2">>),
      Answer("json", "200", <<"OK">>, "ZERO_RESULTS", <<>>, <<>>),
      Answer("json", "200", <<"OK">>, "OVER_QUERY_LIMIT", <<>>, <<>>),
      Answer("json", "200", <<"OK">>, "REQUEST_DENIED",
             <<"The", "provided", "API", "key", "is", "invalid.">>, <<>>),
      Answer("json", "200", <<"OK">>, "INVALID_REQUEST",
             <<"radius", "must", "be", "positive">>, <<>>) }

Return(value) == [kind |-> "return", value |-> value, message |-> <<>>]

Throw(message) == [kind |-> "throw", value |-> NoResult, message |-> message]

\* The messages textSearch and the router take for validation errors.
LooksLikeValidation(message) ==
    \/ Includes(message, <<"required">>)
    \/ Includes(message, <<"format">>)
    \/ Includes(message, <<"must", "be">>)

\* The catch block of textSearch: what it throws for an error it caught.
TextSearchCatch(message) ==
    IF LooksLikeValidation(message) THEN Throw(message)
    ELSE IF Includes(message, <<"API">>)
    THEN Throw(<<"Places", "API", "unavailable", ":">> \o message)
    ELSE Throw(<<"Places", "search", "failed.", "Please", "try", "again", "later.">>)

\* { query: body.query.trim(), location: body.location?.trim(), radius: body.radius }
SearchRequest(body) ==
    [ k \in DOMAIN body |->
        CASE k = "query" -> Trim(body.query)
          [] k = "location" -> Trim(body.location.s)
          [] OTHER -> body[k].n ]

\* textSearch up to its fetch: its own checks of the key and the parameters.
TextSearchBegin(request, e) ==
    LET parts == Split(request.location, ",")
        lat == ParseFloat(Trim(parts[1]))
        lng == IF Len(parts) < 2 THEN NaN ELSE ParseFloat(Trim(parts[2]))
    IN  IF Falsy(e.GOOGLE_PLACES_API_KEY)
        THEN TextSearchCatch(<<"Google", "Places", "API", "key", "not", "configured">>)
        ELSE IF request.query = <<>>
        THEN TextSearchCatch(<<"Query", "parameter", "is", "required", "and", "cannot",
                               "be", "empty">>)
        ELSE IF Has(request, "location") /\ request.location # <<>>
                /\ (lat.nan \/ lng.nan)
        THEN TextSearchCatch(<<"Location", "must", "be", "in", "'lat,lng'", "format">>)
        ELSE IF Has(request, "radius")
                /\ (request.radius < 0 \/ request.radius > RadiusLimit)
        THEN TextSearchCatch(<<"Radius", "must", "be", "between", "0", "and", "50000",
                               "meters">>)
        ELSE [kind |-> "fetch", value |-> NoResult, message |-> <<>>]

\* The PlaceSearchResponse textSearch returns; a timestamp is the instant.
SearchResponse(request, answer, timestamp) ==
    [ status |-> answer.status,
      results |-> answer.results,
      metadata |-> [ query |-> request.query,
                     cost |-> <<"$", "0", ".", "0", "1">>,
                     timestamp |-> timestamp ] ]

\* textSearch from the answer to its fetch on.
PlacesTextSearchOnAnswer(request, answer, timestamp) ==
    CASE answer.kind = "rejected" -> TextSearchCatch(<<"fetch", "failed">>)
      [] answer.kind = "http" ->
           TextSearchCatch(<<"Places", "API", "HTTP", "error", ":", answer.httpStatus>>
                           \o answer.statusText)
      [] answer.kind = "notJson" -> TextSearchCatch(<<"Unexpected", "token">>)
      [] OTHER ->
           IF answer.status # "OK" /\ answer.status # "ZERO_RESULTS"
           THEN TextSearchCatch(
                    <<"Places", "API", "error", ":", answer.status>>
                    \o (IF answer.errorMessage # <<>>
                        THEN <<"-">> \o answer.errorMessage ELSE <<>>))
           ELSE Return(SearchResponse(request, answer, timestamp))

\* ------------------------------------------ the handlers of the priced route
\* { ...object, [key]: value }
Spread(object, key, value) ==
    [ k \in DOMAIN object \cup {key} |-> IF k = key THEN value ELSE object[k] ]

NoContent == [empty |-> TRUE]

Reply(status, content) == [status |-> status, content |-> content]

ExampleBody == "example"

\* The 400 of app.post('/api/places/text-search').
ServerValidationReply(errors) ==
    Reply(400, [ error |-> "Invalid Request",
                 message |-> "Request validation failed",
                 details |-> [errors |-> errors, example |-> ExampleBody] ])

\* The 400 of router.post("/places/text-search").
RouterValidationReply(errors) ==
    Reply(400, [ error |-> "Invalid Request",
                 message |-> "Request validation failed",
                 code |-> 400,
                 details |-> [errors |-> errors, example |-> ExampleBody] ])

\* The metadata of the server's 200.
PaymentMetadata(cfg, timestamp) ==
    [ cost |-> <<"$">> \o cfg.priceUsd,
      protocol |-> "x402 v1.0",
      payment_method |-> "gasless_micropayment",
      facilitator_used |-> TRUE,
      network |-> cfg.network,
      timestamp |-> timestamp ]

\* app.post('/api/places/text-search') after textSearch returned or threw;
\* details is left out of the JSON when it is undefined.
ServerReply(cfg, e, outcome, timestamp) ==
    IF outcome.kind = "return"
    THEN Reply(200, Spread(outcome.value, "metadata", PaymentMetadata(cfg, timestamp)))
    ELSE IF e.NODE_ENV = "development"
    THEN Reply(500, [ error |-> "Internal Server Error",
                      message |-> "Places search failed",
                      details |-> outcome.message ])
    ELSE Reply(500, [ error |-> "Internal Server Error",
                      message |-> "Places search failed" ])

\* router.post("/places/text-search") after textSearch returned or threw.
RouterReply(outcome) ==
    IF outcome.kind = "return" THEN Reply(200, outcome.value)
    ELSE IF LooksLikeValidation(outcome.message)
    THEN Reply(400, [ error |-> "Validation Error", message |-> outcome.message,
                      code |-> 400 ])
    ELSE IF Includes(outcome.message, <<"unavailable">>)
            \/ Includes(outcome.message, <<"API">>)
    THEN Reply(503, [ error |-> "Service Unavailable",
                      message |-> "Google Places API is temporarily unavailable",
                      code |-> 503,
                      details |-> [ retry_after |-> "30 seconds",
                                    support |-> "Contact support if issue persists" ] ])
    ELSE Reply(500, [ error |-> "Internal Server Error",
                      message |-> "An unexpected error occurred while processing your request",
                      code |-> 500,
                      details |-> [ retry |-> TRUE,
                                    support |-> "Contact support if issue persists" ] ])

HandlerReply(impl, cfg, e, outcome, timestamp) ==
    IF impl = "server" THEN ServerReply(cfg, e, outcome, timestamp)
    ELSE RouterReply(outcome)

\* An admitted request as it reaches a handler of the priced route.
AdmittedRequest(impl, body) ==
    [ pc |-> "admitted", impl |-> impl, body |-> body, errors |-> <<>>,
      answer |-> Answer("none", "0", <<>>, "none", <<>>, <<>>),
      outcome |-> [kind |-> "none"],
      status |-> 0, content |-> NoContent,
      headersSent |-> FALSE, writes |-> 0, searchCalled |-> FALSE ]

\* res.status(status).json(content): a response is written.
Write(s, reply) ==
    [s EXCEPT !.status = reply.status, !.content = reply.content,
              !.headersSent = TRUE, !.writes = @ + 1]

\* The handler ends: it writes its response, except that the catch branch
\* of the server writes only if (!res.headersSent).
Finish(s, outcome, reply) ==
    LET t == [s EXCEPT !.pc = "done", !.outcome = outcome]
    IN  IF outcome.kind = "throw" /\ s.impl = "server" /\ s.headersSent
        THEN t
        ELSE Write(t, reply)

\* The 400 of the validation written without the return in front of it.
HandlerOnEntryFallsThrough(s, cfg, e, timestamp) ==
    LET errors == ValidateRequest(s.body)
        w == IF Len(errors) > 0
             THEN Write([s EXCEPT !.errors = errors],
                        IF s.impl = "server" THEN ServerValidationReply(errors)
                        ELSE RouterValidationReply(errors))
             ELSE s
        t == [w EXCEPT !.searchCalled = TRUE]
        begun == TextSearchBegin(SearchRequest(s.body), e)
    IN  IF begun.kind = "throw"
        THEN Finish(t, begun, HandlerReply(s.impl, cfg, e, begun, timestamp))
        ELSE [t EXCEPT !.pc = "fetching"]

\* A handler from its first line to its first await.
HandlerOnEntry(s, cfg, e, timestamp) ==
    LET errors == ValidateRequest(s.body)
        t == [s EXCEPT !.searchCalled = TRUE]
        begun == TextSearchBegin(SearchRequest(s.body), e)
    IN  IF Len(errors) > 0
        THEN Finish([s EXCEPT !.errors = errors], [kind |-> "none"],
                    IF s.impl = "server" THEN ServerValidationReply(errors)
                    ELSE RouterValidationReply(errors))
        ELSE IF begun.kind = "throw"
        THEN Finish(t, begun, HandlerReply(s.impl, cfg, e, begun, timestamp))
        ELSE [t EXCEPT !.pc = "fetching"]

\* The rest of the handler, from the provider's answer on. The service and
\* the handler each read the clock.
HandlerOnAnswer(s, cfg, e, answer, serviceTime, handlerTime) ==
    LET outcome == PlacesTextSearchOnAnswer(SearchRequest(s.body), answer, serviceTime)
    IN  Finish([s EXCEPT !.answer = answer], outcome,
               HandlerReply(s.impl, cfg, e, outcome, handlerTime))

SearchBodies ==
    { [query |-> Coffee], [query |-> <<>>],
      [query |-> <<" ", "c", " ">>, location |-> Str(<<" ", "1", ",", "9">>)],
      [query |-> Coffee, location |-> Str(<<"9", "1", ",", "9">>)],
      [query |-> Coffee, radius |-> Num(2000)],
      [query |-> Coffee, radius |-> Num(50001)] }

HandlerEnvironments ==
    { [e EXCEPT !.NODE_ENV = v] : e \in Environments, v \in {Unset, "development"} }

HandlerEntry ==
    /\ Serving
    /\ search.pc = "admitted"
    /\ search' = HandlerOnEntry(search, x402Config, env, now)
    /\ UNCHANGED <<regVars, payVars, env, proc, registerRoute, lookup,
                   validation, quote, signer, now>>

ProviderAnswer ==
    /\ search.pc = "fetching"
    /\ \E answer \in ProviderAnswers, d \in {0, 1} :
         /\ search' = HandlerOnAnswer(search, x402Config, env, answer, now, now + d)
         /\ now' = now + d
    /\ UNCHANGED <<regVars, payVars, env, proc, registerRoute, lookup,
                   validation, quote, signer>>

\* The variables of the registration side and of the requests, at rest.
RestInit ==
    /\ disableStackRegistration = FALSE
    /\ config = [ i \in Instances |-> NewService(ServerUrl, {}, {}) ]
    /\ registered = [i \in Instances |-> FALSE]
    /\ call = [i \in Instances |-> IdleCall]
    /\ init = InitRecord
    /\ initLog = <<>>
    /\ req = [n \in 1..MaxRequests |-> NewRequest]
    /\ facilitatorSeen = {}
    /\ facilitatorRejectsReplay = TRUE
    /\ registerRoute = [s \in RouteSlots |-> IdleRoute]
    /\ lookup = NoLookup

\* One admitted request in each handler of the priced route.
HandlerInit ==
    /\ RestInit
    /\ env \in HandlerEnvironments
    /\ proc = StartServerResult(env)
    /\ x402Config = GetConfig(env)
    /\ \E impl \in {"server", "router"}, body \in SearchBodies :
         search = AdmittedRequest(impl, body)
    /\ validation = NoValidation
    /\ quote = NoQuote
    /\ signer = NoSigner
    /\ now = 0

HandlerNext ==
    \/ HandlerEntry
    \/ ProviderAnswer

HandlerSpec == HandlerInit /\ [][HandlerNext]_vars

\* Every body given to the validator.
ValidInit ==
    /\ RestInit
    /\ env = CHOOSE e \in Environments : TRUE
    /\ proc = StartServerResult(env)
    /\ x402Config = GetConfig(env)
    /\ \E body \in ValidatedBodies :
         validation = [pc |-> "given", body |-> body, errors |-> <<>>]
    /\ search = NoSearch
    /\ quote = NoQuote
    /\ signer = NoSigner
    /\ now = 0

ValidNext == ValidateBody

ValidSpec == ValidInit /\ [][ValidNext]_vars

\* ------------------------------------------------ price to the smallest unit
DigitChar(k) ==
    CASE k = 0 -> "0" [] k = 1 -> "1" [] k = 2 -> "2" [] k = 3 -> "3" [] k = 4 -> "4"
      [] k = 5 -> "5" [] k = 6 -> "6" [] k = 7 -> "7" [] k = 8 -> "8" [] k = 9 -> "9"

\* Number.prototype.toString / BigInt.prototype.toString of a natural number.
RECURSIVE ToDecimalString(_)
ToDecimalString(n) ==
    IF n < 10 THEN <<DigitChar(n)>>
    ELSE ToDecimalString(n \div 10) \o <<DigitChar(n % 10)>>

\* String.prototype.padStart with a one-character filler.
RECURSIVE PadStart(_, _, _)
PadStart(s, n, c) == IF Len(s) >= n THEN s ELSE PadStart(<<c>> \o s, n, c)

\* (Number(maxAmountRequired) / 1e6).toFixed(6)
AtomicToPrice(amount) ==
    LET n == DigitsValue(amount)
    IN  ToDecimalString(n \div Micro) \o <<".">>
        \o PadStart(ToDecimalString(n % Micro), UsdcDecimals, "0")

\* The decimal strings a price may be configured as: up to UsdcDecimals
\* digits after the point.
PriceWholes == { <<"0">>, <<"1">>, <<"1", "2">> }

PriceFractions == UNION { [1..k -> {"0", "1", "5"}] : k \in 0..UsdcDecimals }

ConfiguredPrices ==
    { IF f = <<>> THEN w ELSE w \o <<".">> \o f : w \in PriceWholes, f \in PriceFractions }

\* The requirement the server issues for a configured price, its amount as
\* the integer string of the 402 body, and the amount taken back to a price.
QuoteFor(cfg) ==
    LET entry == CHOOSE e \in RouteTable(cfg) : TRUE
        requirement == BuildRequirement(entry, MiddlewarePayTo(cfg))
        amount == ToDecimalString(requirement.maxAmountRequired)
    IN  [ pc |-> "quoted", price |-> cfg.priceUsd, maxAmountRequired |-> amount,
          back |-> AtomicToPrice(amount) ]

IssueRequirement ==
    /\ quote.pc = "configured"
    /\ quote' = QuoteFor(x402Config)
    /\ UNCHANGED <<regVars, payVars, env, proc, registerRoute, lookup,
                   search, validation, signer, now>>

\* ---------------------------------------------------------- the paying party
\* Payment flows (runs of testX402PaymentFlow) followed together.
MaxSigners == 2
\* Times the clock is seen to advance while the flows wait.
MaxTicks == 2

TestAccount == "0xPayer"

\* CHAIN_CONFIGS
ChainConfigs == {"avalanche", "avalanche-fuji"}

ChainId(network) == IF network = "avalanche" THEN 43114 ELSE 43113

\* USDC_ADDRESSES
UsdcAddresses(network) ==
    CASE network = "avalanche" -> "0xB97E"
      [] network = "avalanche-fuji" -> "0x5425"
      [] network = "base" -> "0x8335"
      [] network = "base-sepolia" -> "0x036C"
      [] OTHER -> ""

\* parseUnits(price, decimals) of a price with at most that many decimals.
ParseUnits(price, decimals) ==
    LET parts == Split(price, ".")
        frac == IF Len(parts) > 1 THEN parts[2] ELSE <<>>
    IN  DigitsValue(parts[1] \o frac \o [i \in 1..(decimals - Len(frac)) |-> "0"])

\* accepts[0] of a 402 body; "" and <<>> stand for a field that is absent.
Challenge(amount, network, payTo, asset, extra) ==
    [ maxAmountRequired |-> amount, network |-> network, payTo |-> payTo,
      asset |-> asset, extra |-> extra ]

UsdcHints == [name |-> "USD Coin", version |-> "2"]

NoHints == [name |-> "", version |-> ""]

Challenges ==
    { Challenge(<<"1", "0", "0", "0", "0">>, "avalanche", ServerWallet, "0xB97E", UsdcHints),
      Challenge(<<"5", "0", "0", "0", "0">>, "avalanche-fuji", OtherWallet, "", NoHints),
      Challenge(<<>>, "avalanche", ServerWallet, "0xB97E", [name |-> "USDC", version |-> "2"]),
      Challenge(<<"1", "0", "0", "0", "0">>, "base", ServerWallet, "0x8335", UsdcHints) }

\* What the server may answer to the request without payment.
InitialResponses ==
    { [status |-> 200, accepts |-> <<>>], [status |-> 402, accepts |-> <<>>] }
    \cup { [status |-> 402, accepts |-> <<c>>] : c \in Challenges }

\* `0x${Buffer.from(Date.now().toString()).toString('hex').padStart(64, '0')}`:
\* the ASCII code of the digit d is 0x3d.
RECURSIVE HexOfDigits(_)
HexOfDigits(d) == IF d = <<>> THEN <<>> ELSE <<"3", Head(d)>> \o HexOfDigits(Tail(d))

NonceOf(time) ==
    <<"0", "x">> \o PadStart(HexOfDigits(ToDecimalString(time)), NonceHexLength, "0")

\* Math.floor(Date.now() / 1000) - 60 and + 3600
ValidAfterOf(time) == (time \div 1000) - SkewSeconds

ValidBeforeOf(time) == (time \div 1000) + ValidForSeconds

\* BigInt(maxAmountRequired || parseUnits('0.01', 6))
AmountInUSDC(challenge) ==
    IF challenge.maxAmountRequired = <<>> THEN ParseUnits(DefaultPrice, UsdcDecimals)
    ELSE DigitsValue(challenge.maxAmountRequired)

\* The EIP-712 domain.
SignerDomain(challenge) ==
    [ name |-> IF challenge.extra.name = "" THEN "USD Coin" ELSE challenge.extra.name,
      version |-> IF challenge.extra.version = "" THEN "2" ELSE challenge.extra.version,
      chainId |-> ChainId(challenge.network),
      verifyingContract |-> IF challenge.asset = "" THEN UsdcAddresses(challenge.network)
                            ELSE challenge.asset ]

\* The default amount signed whatever the challenge asks.
SignerMessageDefaultAmount(challenge, nonce, validAfter, validBefore) ==
    [ from |-> TestAccount, to |-> challenge.payTo,
      value |-> ParseUnits(DefaultPrice, UsdcDecimals),
      validAfter |-> validAfter, validBefore |-> validBefore, nonce |-> nonce ]

\* The message to sign.
SignerMessage(challenge, nonce, validAfter, validBefore) ==
    [ from |-> TestAccount, to |-> challenge.payTo, value |-> AmountInUSDC(challenge),
      validAfter |-> validAfter, validBefore |-> validBefore, nonce |-> nonce ]

\* walletClient.signTypedData: the signature stands for what it was made over.
SignTypedData(account, domain, message) ==
    [account |-> account, domain |-> domain, primaryType |-> "TransferWithAuthorization",
     message |-> message]

\* paymentPayload
PaymentPayload(f, signature) ==
    [ x402Version |-> 1, scheme |-> "exact", network |-> f.challenge.network,
      payload |-> [ signature |-> signature,
                    authorization |->
                        [ from |-> TestAccount, to |-> f.challenge.payTo,
                          value |-> ToDecimalString(f.amount),
                          validAfter |-> ToDecimalString(f.validAfter),
                          validBefore |-> ToDecimalString(f.validBefore),
                          nonce |-> f.nonce ] ] ]

\* Buffer.from(JSON.stringify(payload)).toString('base64')
Base64Json(payload) == [encoding |-> "base64", json |-> payload]

NoChallenge == Challenge(<<>>, "none", "none", "", NoHints)

NoMessage == SignerMessage(NoChallenge, <<>>, 0, 0)

\* A flow before its first request is answered. nonceRead, afterRead and
\* beforeRead are the readings of the clock the flow made.
NewFlow ==
    [ pc |-> "start", failure |-> "none", challenge |-> NoChallenge, amount |-> 0,
      nonce |-> <<>>, validAfter |-> 0, validBefore |-> 0,
      nonceRead |-> 0, afterRead |-> 0, beforeRead |-> 0,
      message |-> NoMessage, header |-> Base64Json("none"), sentAt |-> 0 ]

FlowFails(f, failure) == [f EXCEPT !.pc = "failed", !.failure = failure]

\* The single clock reading used for both ends of the window, one hour wide.
ValidityWindowNoSkew(t2, t3) ==
    [validAfter |-> t2 \div 1000, validBefore |-> ValidBeforeOf(t3)]

\* Step 4: the validity window from two readings of the clock.
ValidityWindow(t2, t3) ==
    [validAfter |-> ValidAfterOf(t2), validBefore |-> ValidBeforeOf(t3)]

\* Steps 1 to 5, from the answer to the first request to the await of the
\* signature; t1, t2, t3 are the three readings of Date.now().
SignerOnResponse(f, response, t1, t2, t3) ==
    LET challenge == response.accepts[1]
        window == ValidityWindow(t2, t3)
        nonce == NonceOf(t1)
    IN  IF response.status # 402 THEN FlowFails(f, "expected402")
        ELSE IF response.accepts = <<>> THEN FlowFails(f, "noAcceptedPayment")
        ELSE IF challenge.network \notin ChainConfigs THEN FlowFails(f, "unknownNetwork")
        ELSE IF challenge.asset = "" /\ UsdcAddresses(challenge.network) = ""
        THEN FlowFails(f, "unknownUsdc")
        ELSE [f EXCEPT !.pc = "signing", !.challenge = challenge,
                       !.amount = AmountInUSDC(challenge), !.nonce = nonce,
                       !.validAfter = window.validAfter,
                       !.validBefore = window.validBefore,
                       !.nonceRead = t1, !.afterRead = t2, !.beforeRead = t3,
                       !.message = SignerMessage(challenge, nonce, window.validAfter,
                                                 window.validBefore)]

\* Steps 6 and 7: the payload around the signature, and the request with it.
SignerOnSignature(f, time) ==
    LET signature == SignTypedData(TestAccount, SignerDomain(f.challenge), f.message)
    IN  [f EXCEPT !.pc = "sent", !.header = Base64Json(PaymentPayload(f, signature)),
                  !.sentAt = time]

StartClocks == {100000, 100999}

\* The flows are followed for less than the hour a proof is valid for.
Horizon == 100000 + (ValidForSeconds - 1) * 1000

TickSizes == {1, 999, 1799000, 3598000}

SignerChallenged ==
    /\ \E i \in DOMAIN signer.flow, response \in InitialResponses,
          d1 \in {0, 1}, d2 \in {0, 1} :
         /\ signer.flow[i].pc = "start"
         /\ i > 1 => signer.flow[i - 1].pc # "start"
         /\ signer' = [signer EXCEPT
                 !.flow[i] = SignerOnResponse(@, response, now, now + d1, now + d1 + d2)]
         /\ now' = now + d1 + d2
    /\ UNCHANGED <<regVars, payVars, env, proc, registerRoute, lookup,
                   search, validation, quote>>

SignerSigned ==
    /\ \E i \in DOMAIN signer.flow :
         /\ signer.flow[i].pc = "signing"
         /\ signer' = [signer EXCEPT !.flow[i] = SignerOnSignature(@, now)]
    /\ UNCHANGED <<regVars, payVars, env, proc, registerRoute, lookup,
                   search, validation, quote, now>>

Tick ==
    /\ signer.ticks < MaxTicks
    /\ \E d \in TickSizes :
         /\ now + d <= Horizon
         /\ now' = now + d
    /\ signer' = [signer EXCEPT !.ticks = @ + 1]
    /\ UNCHANGED <<regVars, payVars, env, proc, registerRoute, lookup,
                   search, validation, quote>>

\* Every price the server may be configured with.
PriceInit ==
    /\ RestInit
    /\ \E e \in Environments, p \in ConfiguredPrices :
         /\ env = [e EXCEPT !.PAYMENT_PRICE_USD = p]
         /\ quote = [ pc |-> "configured", price |-> p, maxAmountRequired |-> <<>>,
                      back |-> <<>> ]
    /\ proc = StartServerResult(env)
    /\ x402Config = GetConfig(env)
    /\ search = NoSearch
    /\ validation = NoValidation
    /\ signer = NoSigner
    /\ now = 0

PriceNext == IssueRequirement

PriceSpec == PriceInit /\ [][PriceNext]_vars

\* The paying party with nothing else going on.
SignerRest ==
    /\ RestInit
    /\ env = CHOOSE e \in Environments : TRUE
    /\ proc = StartServerResult(env)
    /\ x402Config = GetConfig(env)
    /\ search = NoSearch
    /\ validation = NoValidation
    /\ quote = NoQuote
    /\ now \in StartClocks

\* One run of the payment flow.
SignerInit ==
    /\ SignerRest
    /\ signer = [flow |-> [i \in {1} |-> NewFlow], ticks |-> 0]

\* Several runs of the payment flow at the same time.
SignersInit ==
    /\ SignerRest
    /\ signer = [flow |-> [i \in 1..MaxSigners |-> NewFlow], ticks |-> 0]

SignerNext ==
    \/ SignerChallenged
    \/ SignerSigned
    \/ Tick

SignerSpec == SignerInit /\ [][SignerNext]_vars

SignersSpec == SignersInit /\ [][SignerNext]_vars

\* ----------------------------------------- the startup sequence against time
\* The startup sequence alone, with the clock of its health probe.
TimedInit ==
    /\ disableStackRegistration \in BOOLEAN
    /\ \E u \in SelfUrls :
         config = [ startup |-> NewService(u, {StartupRetryAttempts}, {StartupRetryDelayMs}),
                    manual |-> NewService(u, {}, {}) ]
    /\ registered = [i \in Instances |-> FALSE]
    /\ call = [i \in Instances |-> IdleCall]
    /\ init = InitRecord
    /\ initLog = <<>>
    /\ env = CHOOSE e \in Environments : TRUE
    /\ proc = StartServerResult(env)
    /\ x402Config = GetConfig(env)
    /\ registerRoute = [s \in RouteSlots |-> IdleRoute]
    /\ lookup = NoLookup
    /\ req = [n \in 1..MaxRequests |-> NewRequest]
    /\ facilitatorSeen = {}
    /\ facilitatorRejectsReplay = TRUE
    /\ ExtIdle

TimedNext ==
    \/ InitStart
    \/ ClockTick
    \/ HealthAnswered
    \/ HealthTimedOut
    \/ InitVerifyResponse
    \/ InitRegisterResponse
    \/ InitDelayElapsed

\* What the event loop guarantees: a called function runs, time passes, and a
\* timer that is due fires (the abort signal of the probe, the setTimeout of
\* delay). An answer of the registry is not the program's to guarantee.
TimedFairness ==
    /\ WF_vars(InitStart)
    /\ WF_vars(ClockTick)
    /\ WF_vars(HealthTimedOut)
    /\ WF_vars(InitDelayElapsed)

TimedSpec == TimedInit /\ [][TimedNext]_vars /\ TimedFairness

\* ------------------------------------------------------------------ claims

\* C7: with N = retryAttempts >= 1, a register() call that entered its loop
\* and whose requests have all failed (exception, timeout, or a non-success
\* answer that is not "already registered") has sent one request per attempt
\* and begun one wait of retryDelayMs between consecutive attempts; when it
\* returns it has sent exactly N requests, waited N-1 times (never after the
\* last attempt) and returns {success: false}, not an exception.
C7_ExactlyNAttemptsThenFailure ==
    \A i \in Instances :
      LET k == call[i]
          N == config[i].retryAttempts
      IN  (k.op = "register" /\ k.entered /\ k.allFailed /\ N >= 1) =>
            /\ k.pc \in {"fetch", "delay", "returned"}
            /\ k.waited = k.waits * config[i].retryDelayMs
            /\ k.pc = "fetch" => (k.sent = k.attempt /\ k.waits = k.attempt - 1 /\ k.attempt <= N)
            /\ k.pc = "delay" => (k.sent = k.attempt /\ k.waits = k.attempt /\ k.attempt < N)
            /\ k.pc = "returned" =>
                 /\ k.sent = N
                 /\ k.waits = N - 1
                 /\ k.result.kind = "return"
                 /\ ~k.result.success
                 /\ ~registered[i]

C7_Witness ==
    \E i \in Instances :
      /\ call[i].op = "register" /\ call[i].entered /\ call[i].allFailed
      /\ call[i].pc = "returned"
      /\ config[i].retryAttempts >= 2
      /\ call[i].sent = config[i].retryAttempts
      /\ call[i].waits >= 1

\* C8: once a register() call has received an answer {success: false, error:
\* "...already registered..."}, the call has returned {success: true,
\* alreadyRegistered: true}, the registered flag is set, and the call's
\* request and wait counts are still those of the attempt that got the answer.
C8_AlreadyRegisteredIsSuccess ==
    \A i \in Instances :
      LET k == call[i]
      IN  (k.op = "register" /\ k.sawAlready) =>
            /\ k.pc = "returned"
            /\ k.result.kind = "return"
            /\ k.result.success
            /\ k.result.alreadyRegistered
            /\ registered[i]
            /\ k.sent = k.alreadyAt
            /\ k.waits = k.alreadyAt - 1

C8_Witness ==
    \E i \in Instances :
      /\ call[i].op = "register" /\ call[i].sawAlready
      /\ call[i].alreadyAt = 2
      /\ call[i].alreadyAt < config[i].retryAttempts
      /\ call[i].pc = "returned"

\* C9: initStackRegistration sends nothing when registration is disabled;
\* otherwise its first request is the health probe, the vendor-list query
\* of verify comes second and only after the probe answered OK, and every
\* registration request comes after both and only when verify reported
\* not registered.
C9_StartupOrder ==
    /\ disableStackRegistration => (initLog = <<>> /\ call["startup"].sent = 0)
    /\ \A n \in 1..Len(initLog) :
         /\ initLog[n] = "health" => n = 1
         /\ initLog[n] = "vendors" =>
              /\ n = 2
              /\ initLog[1] = "health"
              /\ init.probe = "ok"
              /\ init.stackAvailable = "yes"
         /\ initLog[n] = "register" =>
              /\ n >= 3
              /\ initLog[1] = "health"
              /\ initLog[2] = "vendors"
              /\ init.probe = "ok"
              /\ init.stackAvailable = "yes"
              /\ init.verification = "notRegistered"

C9_Witness ==
    /\ Len(initLog) = 4
    /\ initLog[4] = "register"
    /\ init.pc = "register"

\* C10: when the health probe is answered non-OK, fails or times out, the
\* startup sequence has returned without an exception, the probe is the only
\* request it sent, and the registered flag of its service is still false.
C10_UnavailableStops ==
    init.probe \in {"notOk", "error", "timeout"} =>
      /\ init.pc = "returned"
      /\ ~init.threw
      /\ initLog = <<"health">>
      /\ call["startup"].op = "checkStackHealth"
      /\ ~registered["startup"]

C10_Witness ==
    init.probe = "timeout" /\ init.pc = "returned" /\ init.outcome = "unavailable"

\* What a priced route's challenge must ask for, written out for the prices
\* of PriceChoices: "0.01" is 10000 and "0.05" is 50000 units of 10^-6.
ExpectedAmount ==
    IF x402Config.priceUsd = <<"0", ".", "0", "1">> THEN 10000 ELSE 50000

Arrived(n) == req[n].pc # "absent"

Priced(n) == Arrived(n) /\ req[n].route = PricedRoute

\* The proof of request n is one for this route: it decodes and names the
\* configured network, wallet and amount.
ProofFits(n) ==
    /\ req[n].header.present
    /\ req[n].header.b64ok
    /\ req[n].header.complete
    /\ req[n].header.network = x402Config.network
    /\ req[n].header.to = x402Config.payTo
    /\ req[n].header.value = ExpectedAmount

ExpectedFacilitator == IF x402Config.network = "base" THEN "cdp" ELSE "url"

\* C1: on the priced route the handler (validation, upstream search, a
\* results / validation / server-error body) has run only for a request the
\* middleware admitted on the facilitator's approval of its proof; a request
\* that was challenged, refused or is still being verified has not reached
\* the handler, has caused no search and carries only a payment response.
C1_HandlerOnlyAfterAdmission ==
    \A n \in 1..MaxRequests :
      Priced(n) =>
        /\ ( \/ req[n].handlerRan \/ req[n].validated \/ req[n].searched
             \/ req[n].content \in {"results", "validationError", "serverError"}
             \/ req[n].pc = "searching" )
           => ( /\ req[n].state = "Admitted"
                /\ req[n].verdict = "valid"
                /\ req[n].facilitatorCalls = 1
                /\ ProofFits(n) )
        /\ req[n].state # "Admitted" =>
             /\ req[n].state \in {"Challenged", "Rejected", "Verifying"}
             /\ ~req[n].handlerRan
             /\ ~req[n].searched
             /\ req[n].pc = "done" =>
                  (req[n].status \in {400, 402} /\ req[n].content = "paymentRequired")

C1_Witness ==
    \E n, m \in 1..MaxRequests :
      /\ Priced(n) /\ req[n].state = "Admitted" /\ req[n].content = "results"
      /\ Priced(m) /\ req[m].state = "Rejected" /\ req[m].verdict = "invalid"
      /\ req[m].body.query = <<>>

\* C2: a request to the priced route without an X-Payment header is answered
\* at once with 402 and an accepts array of exactly one requirement, whose
\* amount, network and payTo are those of the configured price, network and
\* wallet; nothing else is done for it (no facilitator call, no handler).
C2_MissingProofChallenged ==
    \A n \in 1..MaxRequests :
      (Priced(n) /\ ~req[n].header.present) =>
        /\ req[n].pc = "done"
        /\ req[n].state = "Challenged"
        /\ req[n].status = 402
        /\ Len(req[n].accepts) = 1
        /\ req[n].accepts[1].maxAmountRequired = ExpectedAmount
        /\ req[n].accepts[1].network = x402Config.network
        /\ req[n].accepts[1].payTo = x402Config.payTo
        /\ req[n].facilitatorCalls = 0
        /\ ~req[n].handlerRan

C2_Witness ==
    \E n \in 1..MaxRequests :
      /\ Priced(n) /\ ~req[n].header.present /\ req[n].status = 402
      /\ x402Config.priceUsd = <<"0", ".", "0", "5">>
      /\ x402Config.network = "base-sepolia"

\* C3: a request to the priced route whose proof does not decode, or names
\* another value, wallet or network than the route requires, is refused with
\* 400: never 402, never passed to the facilitator, never admitted.
C3_MismatchedProofRefused ==
    \A n \in 1..MaxRequests :
      (Priced(n) /\ req[n].header.present /\ ~ProofFits(n)) =>
        /\ req[n].pc = "done"
        /\ req[n].state = "Rejected"
        /\ req[n].status = 400
        /\ req[n].facilitatorCalls = 0
        /\ ~req[n].handlerRan
        /\ ~req[n].searched

C3_Witness ==
    \E n \in 1..MaxRequests :
      /\ Priced(n) /\ req[n].header.present /\ req[n].header.b64ok
      /\ req[n].header.value # ExpectedAmount
      /\ req[n].status = 400

\* C4: with a facilitator that refuses a nonce it has approved before, the
\* requests admitted with a given nonce are exactly one if the facilitator
\* approved that nonce and none otherwise, however often the proof is sent.
C4_AdmittedOncePerProof ==
    facilitatorRejectsReplay =>
      \A k \in Nonces :
        Cardinality({ n \in 1..MaxRequests :
                        Priced(n) /\ req[n].state = "Admitted" /\ req[n].header.nonce = k })
          = IF k \in facilitatorSeen THEN 1 ELSE 0

C4_Witness ==
    /\ facilitatorRejectsReplay
    /\ \E n, m \in 1..MaxRequests :
         /\ n < m
         /\ Priced(n) /\ Priced(m)
         /\ req[n].header = req[m].header
         /\ req[n].state = "Admitted"
         /\ req[m].state = "Rejected" /\ req[m].status = 402

\* C5: a request whose proof decoded and whose facilitator was unreachable
\* or answered no ends Rejected with a 402 carrying the requirement again;
\* the handler has not run, and the one call to the resolved facilitator is
\* the only one made for the request.
C5_FacilitatorFailureRechallenges ==
    \A n \in 1..MaxRequests :
      (Priced(n) /\ req[n].verdict \in {"unreachable", "invalid"}) =>
        /\ ProofFits(n)
        /\ req[n].pc = "done"
        /\ req[n].state = "Rejected"
        /\ req[n].status = 402
        /\ Len(req[n].accepts) = 1
        /\ req[n].accepts[1].maxAmountRequired = ExpectedAmount
        /\ ~req[n].handlerRan
        /\ ~req[n].searched
        /\ req[n].facilitatorCalls = 1
        /\ req[n].facilitator = ExpectedFacilitator

C5_Witness ==
    \E n, m \in 1..MaxRequests :
      /\ Priced(n) /\ req[n].verdict = "unreachable" /\ req[n].pc = "done"
      /\ Priced(m) /\ req[m].verdict = "invalid" /\ req[m].pc = "done"

\* C6: a request to an unpriced route (GET /health, GET /.well-known/x402,
\* GET /api/info, the /api/register routes, GET /) is never answered 402:
\* with or without a proof header it passes the middleware without a
\* facilitator call and is answered by its own handler.
C6_UnpricedNeverChallenged ==
    \A n \in 1..MaxRequests :
      (Arrived(n) /\ req[n].route \in FreeRoutes) =>
        /\ req[n].state = "Bypassed"
        /\ req[n].status # 402
        /\ req[n].accepts = <<>>
        /\ req[n].facilitatorCalls = 0
        /\ req[n].pc \in {"registry", "done"}
        /\ req[n].pc = "done" =>
             req[n].content \in {"health", "discovery", "info", "redirect", "registered",
                                 "registerError", "status", "statusError"}

C6_Witness ==
    \E n, m \in 1..MaxRequests :
      /\ Priced(n) /\ req[n].verdict = "unreachable"
      /\ Arrived(m) /\ n < m
      /\ req[m].route = [method |-> "GET", path |-> "/health"]
      /\ ~req[m].header.present
      /\ req[m].status = 200

\* The network the environment configures: NETWORK, or base when it is not set.
ConfiguredNetwork ==
    IF env.NETWORK \in {Unset, ""} THEN "base" ELSE env.NETWORK

\* A required value is missing from the environment: the wallet, the search
\* key, the facilitator URL, or a CDP credential when the network is base.
ConfigurationIncomplete ==
    \/ env.PAYMENT_WALLET_ADDRESS \in {Unset, ""}
    \/ env.GOOGLE_PLACES_API_KEY \in {Unset, ""}
    \/ env.FACILITATOR_URL \in {Unset, ""}
    \/ /\ ConfiguredNetwork = "base"
       /\ (env.CDP_API_KEY_ID \in {Unset, ""} \/ env.CDP_API_KEY_SECRET \in {Unset, ""})

C18_BindingFollowsRule ==
    Serving =>
      /\ x402Config.network = ConfiguredNetwork
      /\ ConfiguredNetwork \in {"base", "base-sepolia", "avalanche", "solana"}
      /\ ConfiguredNetwork = "base" =>
           proc.facilitator = [kind |-> "cdp", url |-> "built-in"]
      /\ ConfiguredNetwork # "base" =>
           proc.facilitator = [kind |-> "url", url |-> env.FACILITATOR_URL]
      /\ \A n \in 1..MaxRequests :
           req[n].facilitatorCalls > 0 =>
             req[n].facilitator = (IF ConfiguredNetwork = "base" THEN "cdp" ELSE "url")

C18_BindingFixed ==
    Serving => (proc' = proc /\ x402Config' = x402Config /\ env' = env)

\* C18: in a serving process the facilitator binding is the built-in (CDP)
\* facilitator when the configured network is base and the facilitator of
\* the configured URL for base-sepolia, avalanche and solana; every request
\* that is verified goes to that binding, and neither the binding nor the
\* configuration it comes from changes once the process serves.
C18_FacilitatorBinding ==
    [](C18_BindingFollowsRule) /\ [][C18_BindingFixed]_vars

C18_Witness ==
    /\ env.NETWORK = "avalanche"
    /\ \A n \in 1..2 : req[n].facilitatorCalls = 1 /\ req[n].facilitator = "url"

\* C19: when the environment names a network outside base, base-sepolia,
\* avalanche and solana, the process never serves: it exits with code 1
\* during startup and no request has been received; every request that was
\* received was received by a process configured with a supported network.
C19_UnsupportedNetworkAbortsStartup ==
    /\ ConfiguredNetwork \notin {"base", "base-sepolia", "avalanche", "solana"} =>
         /\ proc.pc \in {"notStarted", "exited"}
         /\ proc.pc = "exited" =>
              (proc.exitCode = 1 /\ proc.diagnostic \in {"missingEnv", "invalidNetwork"})
         /\ \A n \in 1..MaxRequests : ~Arrived(n)
    /\ \A n \in 1..MaxRequests :
         Arrived(n) =>
           /\ Serving
           /\ x402Config.network \in {"base", "base-sepolia", "avalanche", "solana"}

C19_Witness ==
    /\ env.NETWORK = "ethereum"
    /\ proc.pc = "exited"
    /\ proc.diagnostic = "invalidNetwork"

\* C20: when the wallet address, the search API key, the facilitator URL or
\* (network base) a CDP credential is missing, the process never serves: it
\* exits with code 1 and a diagnostic during startup and receives no
\* request; a process that listens (or hands its app to the platform) has a
\* complete configuration.
C20_MissingConfigAbortsStartup ==
    /\ ConfigurationIncomplete =>
         /\ proc.pc \in {"notStarted", "exited"}
         /\ proc.pc = "exited" => (proc.exitCode = 1 /\ proc.diagnostic # "none")
         /\ \A n \in 1..MaxRequests : ~Arrived(n)
    /\ Serving =>
         /\ ~ConfigurationIncomplete
         /\ x402Config # NullConfig
         /\ x402Config.payTo = env.PAYMENT_WALLET_ADDRESS
         /\ x402Config.facilitatorUrl = env.FACILITATOR_URL

C20_Witness ==
    /\ env.FACILITATOR_URL = Unset
    /\ env.GOOGLE_PLACES_API_KEY = "key"
    /\ env.PAYMENT_WALLET_ADDRESS = ServerWallet
    /\ proc.pc = "exited"
    /\ proc.diagnostic = "missingConfig"

C11_NothingThrown ==
    /\ \A i \in Instances : call[i].result.kind \in {"none", "return"}
    /\ ~init.threw
    /\ init.outcome \in {"none", "disabled", "unavailable", "already", "registered", "failed"}
    /\ \A i \in Instances :
         (call[i].op = "register" /\ call[i].pc = "returned") =>
           call[i].result.success \in BOOLEAN
    /\ Serving
    /\ proc.exitCode = 0

C11_ServerUntouched ==
    /\ proc' = proc
    /\ x402Config' = x402Config
    /\ req' = req
    /\ facilitatorSeen' = facilitatorSeen

\* C11: whatever the registry answers (rejected fetch, timeout, a body that
\* is not JSON, null, an error that is no string, a vendor without url, a
\* negative answer), checkStackHealth, verifyRegistration and register
\* return a value and never throw, initStackRegistration ends without an
\* exception, the process keeps serving, and no step of the registration
\* code changes the server's configuration or its requests.
C11_ErrorsContained ==
    [](C11_NothingThrown) /\ [][C11_ServerUntouched]_vars

C11_Witness ==
    /\ init.pc = "returned"
    /\ init.outcome = "failed"
    /\ call["startup"].allFailed
    /\ call["manual"].op = "checkStackHealth"
    /\ call["manual"].probe = "timeout"
    /\ call["manual"].pc = "returned"

\* C15: every request a register() call has sent is the same request: a
\* POST to <stackUrl>/api/vendors/register whose body is the url, name,
\* description and category of the configuration, whatever the attempt
\* number and whatever the earlier attempts were answered; there is one
\* such request per attempt, and the configuration never changes.
C15_SameRequestEveryAttempt ==
    /\ \A i \in Instances :
         call[i].op = "register" =>
           /\ Len(call[i].requests) = call[i].sent
           /\ \A n \in 1..Len(call[i].requests) :
                /\ call[i].requests[n] = call[i].requests[1]
                /\ call[i].requests[n].method = "POST"
                /\ call[i].requests[n].url = <<"http://localhost:3005", "/api/vendors/register">>
                /\ call[i].requests[n].body =
                     [ url |-> config[i].selfUrl, name |-> "Places",
                       description |-> "serviceDiscovery.description",
                       category |-> "api" ]
    /\ \A i \in Instances :
         /\ config[i].name = "Places"
         /\ config[i].category = "api"
         /\ config[i].stackUrl = "http://localhost:3005"

C15_Witness ==
    \E i \in Instances :
      /\ call[i].op = "register"
      /\ Len(call[i].requests) = 3
      /\ call[i].pc = "returned"
      /\ call[i].result.success
      /\ ~call[i].result.alreadyRegistered

\* A registered flag of the process is set.
FlagSet == \E i \in Instances : registered[i]

\* A register() call on the exported service begins in this step.
ManualRegisterBegins ==
    /\ ManualFree
    /\ call'["manual"] # call["manual"]
    /\ call'["manual"].op = "register"

C12_Step ==
    /\ \A i \in Instances : registered[i] => registered'[i]
    /\ (FlagSet /\ ManualRegisterBegins) =>
         /\ call'["manual"].pc = "returned"
         /\ call'["manual"].sent = 0
         /\ call'["manual"].result.success
    /\ \A s \in RouteSlots :
         (FlagSet /\ registerRoute[s].pc \in {"idle", "done"}
                  /\ registerRoute'[s] # registerRoute[s]) =>
           /\ registerRoute'[s].pc = "done"
           /\ registerRoute'[s].sent = 0
           /\ registerRoute'[s].success

\* C12: a registered flag that is set stays set, and once one is set every
\* registration begun afterwards in the process (register() on the exported
\* stackRegistration, a POST /api/register request) ends at once in success
\* without a registration request being sent.
C12_StickyFlagShortCircuits == [][C12_Step]_vars

\* The registration requests waiting for the registry's answer.
OutstandingRegistrations ==
    { <<"service", i>> : i \in { j \in Instances :
                                   call[j].op = "register" /\ call[j].pc = "fetch" } }
    \cup { <<"route", s>> : s \in { t \in RouteSlots : registerRoute[t].pc = "fetch" } }

\* The registration sequences that have begun and not ended.
SequencesInFlight ==
    (IF init.pc \in {"health", "verify", "register"} THEN {<<"startup", 0>>} ELSE {})
    \cup (IF call["manual"].op = "register" /\ call["manual"].pc \in {"fetch", "delay"}
          THEN {<<"service", 0>>} ELSE {})
    \cup { <<"route", s>> : s \in { t \in RouteSlots : registerRoute[t].pc = "fetch" } }

\* C13: at any time at most one registration sequence (the startup
\* sequence, a register() call on the exported service, a POST
\* /api/register request) is in flight in the process, and at most one
\* registration request is waiting for the registry's answer.
C13_OneSequenceAtATime ==
    /\ Cardinality(SequencesInFlight) <= 1
    /\ Cardinality(OutstandingRegistrations) <= 1

\* C16: whenever the registry answers a registration request with
\* "already registered", the entry point that sent it ends in success:
\* register() returns success, and POST /api/register answers 200 with
\* success: true, as they do for a first registration.
C16_AlreadyRegisteredSucceedsEverywhere ==
    /\ \A i \in Instances :
         (call[i].op = "register" /\ call[i].sawAlready) =>
           (call[i].pc = "returned" /\ call[i].result.success)
    /\ \A s \in RouteSlots :
         registerRoute[s].sawAlready =>
           /\ registerRoute[s].pc = "done"
           /\ registerRoute[s].status = 200
           /\ registerRoute[s].success

\* Every registration request that has been sent in the process.
RegistrationRequestsSent ==
    UNION { { call[i].requests[n] : n \in 1..Len(call[i].requests) } : i \in Instances }
    \cup UNION { { registerRoute[s].requests[n] : n \in 1..Len(registerRoute[s].requests) } :
                   s \in RouteSlots }

\* C17: every registration request sent to the registry, by the service and
\* by the register route, is a POST whose body has url, name, description,
\* category, walletAddress, network, priceUsd, facilitatorUrl and
\* endpoints, each endpoint with path, method, description, priceUsd,
\* inputSchema and outputSchema.
C17_RegistrationRequestShape ==
    \A r \in RegistrationRequestsSent :
      /\ r.method = "POST"
      /\ {"url", "name", "description", "category", "walletAddress", "network",
          "priceUsd", "facilitatorUrl", "endpoints"} \subseteq DOMAIN r.body
      /\ Len(r.body.endpoints) >= 1
      /\ \A n \in 1..Len(r.body.endpoints) :
           {"path", "method", "description", "priceUsd", "inputSchema", "outputSchema"}
             \subseteq DOMAIN r.body.endpoints[n]

\* The list was fetched (status OK).
LookupFetched == lookup.resp.net = "ok" /\ lookup.resp.ok

LookupList ==
    IF LookupFetched /\ lookup.resp.hasVendors THEN lookup.resp.vendors ELSE <<>>

LookupMatching ==
    { n \in 1..Len(LookupList) :
        LookupList[n].hasUrl /\ SameUpToSlash(LookupList[n].url, lookup.selfUrl) }

Succeeded == search.pc = "done" /\ search.status = 200

C21_HandlerFieldsKept ==
    Succeeded =>
        LET result == search.outcome.value
            body == search.content
        IN  /\ \A k \in DOMAIN result \ {"metadata"} :
                 Has(body, k) /\ body[k] = result[k]
            /\ Has(body, "metadata")
            /\ \A m \in DOMAIN result.metadata :
                 Has(body.metadata, m) /\ body.metadata[m] = result.metadata[m]

\* ---------------------------------------------------------------------------
\* C22: every HTTP 200 response of the priced route carries a metadata object
\* that contains cost, protocol, network, payment_method and timestamp.
SettlementFields == {"cost", "protocol", "network", "payment_method", "timestamp"}

C22_SuccessCarriesSettlementMetadata ==
    Succeeded =>
        /\ Has(search.content, "metadata")
        /\ SettlementFields \subseteq DOMAIN search.content.metadata

\* ---------------------------------------------------------------------------
\* C25: every validation error response of the priced route is a JSON body
\* of the shape {error, message, code, details?} whose code is the HTTP
\* status, and a validation failure always yields HTTP 400.
ValidationFailed == search.pc = "done" /\ Len(search.errors) > 0

C25_StructuredErrorBody ==
    ValidationFailed =>
        /\ search.status = 400
        /\ {"error", "message", "code"} \subseteq DOMAIN search.content
        /\ DOMAIN search.content \subseteq {"error", "message", "code", "details"}
        /\ search.content.code = search.status

\* ---------------------------------------------------------------------------
\* C26: whenever the search provider is unreachable or answers with an error
\* for an admitted request, the priced route responds HTTP 503 with a retry
\* hint: never a success, never a 400, never a generic 500.
UpstreamFailed ==
    /\ search.pc = "done"
    /\ \/ search.answer.kind \in {"rejected", "http"}
       \/ search.answer.kind = "json" /\ search.answer.status \notin {"OK", "ZERO_RESULTS"}

C26_UpstreamFailureIs503 ==
    UpstreamFailed =>
        /\ search.status = 503
        /\ Has(search.content, "details")
        /\ Has(search.content.details, "retry_after")

\* ---------------------------------------------------------------------------
\* C24: validateRequest accepts a location string exactly when it is two
\* comma-separated parts that parse to numbers with the latitude in [-90, 90]
\* and the longitude in [-180, 180]; a wrong part count, a part that is not a
\* number, a latitude out of range and a longitude out of range are each
\* rejected with a message of their own that names the field.
WrongPartCountMessage ==
    "Field 'location' must be in 'lat,lng' format (e.g., '37.7749,-122.4194')"

NotNumbersMessage == "Field 'location' must contain valid latitude and longitude numbers"

LatitudeMessage == "Latitude must be between -90 and 90"

LongitudeMessage == "Longitude must be between -180 and 180"

LocationMessages ==
    {WrongPartCountMessage, NotNumbersMessage, LatitudeMessage, LongitudeMessage}

CommaCount(s) == Cardinality({ i \in 1..Len(s) : s[i] = "," })

CommaAt(s) == CHOOSE i \in 1..Len(s) : s[i] = ","

LatitudeOf(s) == ParseFloat(Trim(SubSeq(s, 1, CommaAt(s) - 1)))

LongitudeOf(s) == ParseFloat(Trim(SubSeq(s, CommaAt(s) + 1, Len(s))))

\* |v| <= k
Within(v, k) == ~v.nan /\ (v.int < k \/ (v.int = k /\ ~v.frac))

LocationGiven ==
    /\ validation.pc = "validated"
    /\ Has(validation.body, "location")
    /\ validation.body.location.t = "string"

C24_LocationValidation ==
    LocationGiven =>
        LET s == validation.body.location.s
            IsLocationMessage(m) == m \in LocationMessages
            said == SelectSeq(validation.errors, IsLocationMessage)
            twoParts == CommaCount(s) = 1
            numbers == twoParts /\ ~LatitudeOf(s).nan /\ ~LongitudeOf(s).nan
        IN  /\ said = <<>> <=>
                 (twoParts /\ Within(LatitudeOf(s), 90) /\ Within(LongitudeOf(s), 180))
            /\ ~twoParts => said = <<WrongPartCountMessage>>
            /\ (twoParts /\ ~numbers) => said = <<NotNumbersMessage>>
            /\ (numbers /\ ~Within(LatitudeOf(s), 90)) => said = <<LatitudeMessage>>
            /\ (numbers /\ Within(LatitudeOf(s), 90) /\ ~Within(LongitudeOf(s), 180))
                 => said = <<LongitudeMessage>>
            /\ Cardinality(LocationMessages) = 4

C24_Witness ==
    /\ LocationGiven
    /\ validation.body.location.s =
         <<"2", "0", "0", ",", "-", "1", "2", "2", ".", "4", "1", "9", "4">>
    /\ validation.errors = <<LatitudeMessage>>

\* ---------------------------------------------------------------------------
\* C23: for every configured USD price with up to 6 decimal digits, the
\* maxAmountRequired of the issued requirement is exactly price * 10^6 as an
\* integer string ("0.01" gives "10000"), nothing is lost to rounding, and
\* taking it back to a price gives the configured price.
PriceParts(p) == Split(p, ".")

PriceFraction(p) == IF Len(PriceParts(p)) > 1 THEN PriceParts(p)[2] ELSE <<>>

\* price * 10^6, from the digits of the price.
ExactMicros(p) ==
    DigitsValue(PriceParts(p)[1] \o PriceFraction(p))
    * Pow10(6 - Len(PriceFraction(p)))

\* The price written with six decimals.
SixDecimals(p) ==
    PriceParts(p)[1] \o <<".">> \o PriceFraction(p)
    \o [i \in 1..(6 - Len(PriceFraction(p))) |-> "0"]

C23_ExactMinorUnits ==
    quote.pc = "quoted" =>
        /\ Len(PriceFraction(quote.price)) <= 6
        /\ quote.maxAmountRequired = ToDecimalString(ExactMicros(quote.price))
        /\ quote.price = <<"0", ".", "0", "1">>
             => quote.maxAmountRequired = <<"1", "0", "0", "0", "0">>
        /\ quote.back = SixDecimals(quote.price)

C23_Witness ==
    /\ quote.pc = "quoted"
    /\ quote.price = <<"1", "2", ".", "0", "0", "0", "0", "0", "5">>
    /\ quote.maxAmountRequired = <<"1", "2", "0", "0", "0", "0", "0", "5">>

\* ---------------------------------------------------------------------------
\* C27: every authorization the signer builds has validAfter 60 seconds
\* before the second of signing and validBefore one hour after it, so that
\* validAfter < validBefore, validAfter stays in the past, and at the time
\* the proof is sent validAfter < now < validBefore.
Built(f) == f.pc \in {"signing", "sent"}

C27_ValidityWindow ==
    \A i \in DOMAIN signer.flow :
        LET f == signer.flow[i]
        IN  /\ Built(f) =>
                 /\ f.validAfter = (f.afterRead \div 1000) - 60
                 /\ f.validBefore = (f.beforeRead \div 1000) + 3600
                 /\ f.message.validAfter = f.validAfter
                 /\ f.message.validBefore = f.validBefore
                 /\ f.validAfter < f.validBefore
                 /\ f.validAfter < now \div 1000
            /\ f.pc = "sent" =>
                 /\ f.validAfter < f.sentAt \div 1000
                 /\ f.sentAt \div 1000 < f.validBefore

\* A proof sent close to an hour after it was built.
C27_Witness ==
    \E i \in DOMAIN signer.flow :
        /\ signer.flow[i].pc = "sent"
        /\ signer.flow[i].sentAt - signer.flow[i].beforeRead >= 3598000

\* ---------------------------------------------------------------------------
\* C28: for every 402 challenge, the authorization the signer signs and the
\* one it places in the X-Payment payload are the same, with value the
\* challenge's maxAmountRequired, to the challenge's payTo and network the
\* challenge's network.
C28_SignedIsSent ==
    \A i \in DOMAIN signer.flow :
        LET f == signer.flow[i]
            payload == f.header.json
            sent == payload.payload.authorization
            signed == payload.payload.signature.message
        IN  f.pc = "sent" =>
              /\ f.header.encoding = "base64"
              /\ sent.from = signed.from
              /\ sent.to = signed.to
              /\ DigitsValue(sent.value) = signed.value
              /\ DigitsValue(sent.validAfter) = signed.validAfter
              /\ DigitsValue(sent.validBefore) = signed.validBefore
              /\ sent.nonce = signed.nonce
              /\ sent.to = f.challenge.payTo
              /\ payload.network = f.challenge.network
              /\ payload.payload.signature.domain.chainId = ChainId(f.challenge.network)
              /\ f.challenge.maxAmountRequired # <<>> =>
                   /\ sent.value = f.challenge.maxAmountRequired
                   /\ signed.value = DigitsValue(f.challenge.maxAmountRequired)

C28_Witness ==
    \E i \in DOMAIN signer.flow :
        /\ signer.flow[i].pc = "sent"
        /\ signer.flow[i].challenge.maxAmountRequired = <<"5", "0", "0", "0", "0">>
        /\ signer.flow[i].challenge.payTo = OtherWallet
        /\ signer.flow[i].header.json.payload.authorization.value = <<"5", "0", "0", "0", "0">>

\* ---------------------------------------------------------------------------
\* C29: any two authorizations the signer builds, in any sequence of signing
\* operations, carry different nonces.
C29_NoncesNeverRepeat ==
    \A i, j \in DOMAIN signer.flow :
        (i # j /\ Built(signer.flow[i]) /\ Built(signer.flow[j]))
            => signer.flow[i].nonce # signer.flow[j].nonce

\* ---------------------------------------------------------------------------
\* C30: the registration sequence runs exactly once at process startup, in
\* the background of a server that is accepting requests: a process that
\* serves has started its registration sequence.
C30_ReconcilerStartsWithServer ==
    Serving => init.pc # "notStarted"

\* The requests the server has received.
Received == { n \in 1..MaxRequests : req[n].pc # "absent" }

\* What the payment side of the server made of a request.
PaymentOutcome(n) ==
    [ state |-> req[n].state,
      accepts |-> req[n].accepts,
      facilitatorCalls |-> req[n].facilitatorCalls,
      status |-> IF req[n].state \in {"Challenged", "Rejected"} THEN req[n].status ELSE 0 ]

C31_SameRequestSameOutcome ==
    \A n \in Received, m \in Received :
      ( /\ req[n].route = req[m].route
        /\ req[n].header = req[m].header
        /\ req[n].verdict = req[m].verdict ) =>
        PaymentOutcome(n) = PaymentOutcome(m)

C31_NothingShared ==
    /\ x402Config' = x402Config
    /\ env' = env
    /\ \A n \in 1..MaxRequests :
         /\ req'[n] # req[n] => \A m \in 1..MaxRequests \ {n} : req'[m] = req[m]
         /\ n \in Received =>
              /\ req'[n].route = req[n].route
              /\ req'[n].header = req[n].header
              /\ req'[n].body = req[n].body
         /\ req[n].pc = "done" => req'[n] = req[n]

\* C31: handling a request to the server leaves nothing a later request can
\* observe: two received requests with the same route, the same proof and
\* the same answer of the facilitator stand in the same payment state (402,
\* 400, verifying, admitted) with the same challenge, whatever was handled
\* before or between them; a step of one request changes no other request
\* and never the configuration, and a request that was answered is final.
C31_NoStateAcrossRequests ==
    [](C31_SameRequestSameOutcome) /\ [][C31_NothingShared]_vars

\* Two requests with the same proof are with the facilitator at the same time.
C31_Witness ==
    /\ req[1].header.present
    /\ req[1].header = req[2].header
    /\ req[1].route = PricedRoute /\ req[2].route = PricedRoute
    /\ req[1].pc = "verifying" /\ req[2].pc = "verifying"
    /\ req[1].state = "Verifying" /\ req[2].state = "Verifying"

C32_BooleanResult ==
    /\ init.probe # "none" =>
         /\ ~init.threw
         /\ init.stackAvailable \in {"yes", "no"}
         /\ init.stackAvailable = "yes" <=> init.probe = "ok"
         /\ init.probe \in {"notOk", "error", "timeout"} => init.stackAvailable = "no"
    /\ \A i \in Instances :
         (call[i].op = "checkStackHealth" /\ call[i].pc = "returned") =>
           /\ call[i].result.kind = "return"
           /\ call[i].result.value \in BOOLEAN
           /\ call[i].result.value <=> call[i].probe = "ok"
    /\ init.pc = "health" =>
         /\ call["startup"].op = "checkStackHealth"
         /\ now - call["startup"].since <= HealthTimeoutMs

C32_SettlesInTime ==
    (init.pc = "health" /\ init'.pc # "health") =>
      /\ init'.probe = "ok" => now - call["startup"].since < HealthTimeoutMs
      /\ init'.probe = "timeout" => now - call["startup"].since = HealthTimeoutMs

\* C32: checkStackHealth returns a boolean and never throws: true exactly
\* when the registry answered OK, which happens only before 5000 ms have
\* passed since the probe left; false on a non-OK answer, a network error
\* and the timeout. A pending probe is never older than 5000 ms, and every
\* probe that left is eventually settled, whether or not the registry answers.
C32_HealthProbeBounded ==
    /\ [](C32_BooleanResult)
    /\ [][C32_SettlesInTime]_vars
    /\ (init.pc = "health") ~> (init.pc # "health")

\* The registry stayed silent and the probe ended by its timeout.
C32_Witness ==
    /\ init.pc = "returned"
    /\ init.probe = "timeout"
    /\ init.stackAvailable = "no"
    /\ call["startup"].result = [kind |-> "return", value |-> FALSE]
    /\ now - call["startup"].since = HealthTimeoutMs

\* A verifyRegistration() call on the instance gets its answer in this step.
VerifyReturns(i) ==
    /\ call[i].op = "verifyRegistration"
    /\ call[i].pc = "fetch"
    /\ call'[i] # call[i]

\* What the verifyRegistration() call that returns in this step reports.
VerifyFound(i) ==
    IF i = "startup" THEN init'.verification = "registered"
    ELSE call'[i].pc = "returned" /\ call'[i].result.registered

C33_Step ==
    /\ \A i \in Instances :
         /\ VerifyReturns(i) => (registered'[i] <=> (registered[i] \/ VerifyFound(i)))
         /\ registered[i] => registered'[i]
    /\ (registered["manual"] /\ ManualRegisterBegins) =>
         /\ call'["manual"].pc = "returned"
         /\ call'["manual"].result.kind = "return"
         /\ call'["manual"].result.success
         /\ call'["manual"].result.alreadyRegistered
         /\ call'["manual"].sent = 0
         /\ call'["manual"].requests = <<>>
         /\ call'["manual"].waits = 0
         /\ call'["manual"].waited = 0

\* C33: a verifyRegistration() that finds this vendor in the registry's list
\* sets the registered flag of its instance, and one that does not find it
\* (or fails) leaves the flag as it was; the flag once set stays set, and
\* every register() begun on an instance whose flag is set returns
\* {success: true, alreadyRegistered: true} at once, with no request sent
\* and no wait.
C33_VerifiedThenRegisterIsImmediate == [][C33_Step]_vars

\* An instance that never sends a registration request (retryAttempts <= 0)
\* has its flag set, which only verifyRegistration() can have done, and a
\* register() called after it returned at once.
C33_Witness ==
    /\ config["manual"].retryAttempts <= 0
    /\ registered["manual"]
    /\ call["manual"].op = "register"
    /\ call["manual"].pc = "returned"
    /\ call["manual"].sent = 0
    /\ call["manual"].result.alreadyRegistered

\* C34: initStackRegistration, once called, eventually returns (disabled,
\* registry unavailable, already registered, registered, or failed after N
\* attempts) whatever the registry does, a registry that answers the health
\* probe and then never answers the vendor-list query or a registration
\* request included.
C34_StartupAlwaysReturns == <>(init.pc = "returned")

\* The registry's answer to the registration request of this step affirms
\* the vendor's entry: success, or "already registered".
RegistrationAffirmed(i) ==
    /\ call[i].op = "register"
    /\ call[i].pc = "fetch"
    /\ call'[i].pc = "returned"
    /\ ~call'[i].allFailed
    /\ call'[i].result.kind = "return"
    /\ call'[i].result.success

\* The vendor list answered in this step has an entry for this vendor.
ListAffirmed(i) ==
    /\ call[i].op = "verifyRegistration"
    /\ call[i].pc = "fetch"
    /\ call'[i].listed

C35_Step ==
    \A i \in Instances :
      /\ (~registered[i] /\ registered'[i]) => (RegistrationAffirmed(i) \/ ListAffirmed(i))
      /\ (call'[i].op = "register" /\ call'[i].entered /\ call'[i].allFailed) =>
           ~registered'[i]

\* C35: the registered flag of an instance is false at construction and is
\* set only in a step in which the registry affirms this vendor's entry: its
\* answer to a registration request is a success or says "already
\* registered", or the vendor list it answers has an entry whose url is
\* selfUrl up to a trailing slash. A rejected fetch, a timeout, a non-JSON
\* or null body and any other refusal never set it.
C35_FlagOnlyWhenAffirmed ==
    /\ (\A i \in Instances : ~registered[i])
    /\ [][C35_Step]_vars

\* The flag was set by a vendor list whose matching entry (the one with id
\* v1) has the url without the slash the self URL ends in.
C35_Witness ==
    /\ registered["manual"]
    /\ call["manual"].op = "verifyRegistration"
    /\ call["manual"].pc = "returned"
    /\ call["manual"].result.registered
    /\ config["manual"].selfUrl = <<"a", "/">>
    /\ call["manual"].result.vendorId = "v1"
    /\ call["manual"].listed

C36_OneResponse ==
    search.pc # "none" =>
      /\ search.writes <= 1
      /\ search.pc \in {"admitted", "fetching"} => (search.writes = 0 /\ ~search.headersSent)
      /\ search.pc = "done" => (search.writes = 1 /\ search.headersSent)
      /\ search.errors # <<>> =>
           /\ search.pc = "done"
           /\ search.status = 400
           /\ ~search.searchCalled
           /\ search.outcome.kind = "none"
      /\ search.status = 200 => search.outcome.kind = "return"
      /\ search.outcome.kind = "throw" => search.status \in {400, 500, 503}

C36_WritesOnlyBeforeHeaders ==
    (search.pc # "none" /\ search'.writes > search.writes) =>
      /\ ~search.headersSent
      /\ search'.pc = "done"

\* C36: a request in a handler of the priced route gets exactly one
\* response: none while the handler runs and one when it has ended; after a
\* validation 400 textSearch is not called and nothing else is written; a
\* 200 is never followed or replaced by an error response; and a response,
\* the one of the catch branch included, is written only while no headers
\* were sent.
C36_ExactlyOneResponse ==
    [](C36_OneResponse) /\ [][C36_WritesOnlyBeforeHeaders]_vars

\* The catch branch of the server wrote the only response of a request
\* whose search the provider failed.
C36_Witness ==
    /\ search.pc = "done"
    /\ search.impl = "server"
    /\ search.searchCalled
    /\ search.answer.kind = "rejected"
    /\ search.outcome.kind = "throw"
    /\ search.status = 500
    /\ search.writes = 1

\* C37: the retry options are taken as given, zero and negative numbers
\* included, and the defaults (3 attempts, 5000 ms) stand in only for an
\* option that was not provided; a register() call that entered its loop on
\* an instance whose retryAttempts is zero or negative has returned
\* {success: false} with no request sent and no wait begun.
C37_ZeroAttemptsSendsNothing ==
    \A i \in Instances :
      /\ config[i].options.retryAttempts = {} => config[i].retryAttempts = 3
      /\ \A v \in config[i].options.retryAttempts : config[i].retryAttempts = v
      /\ config[i].options.retryDelayMs = {} => config[i].retryDelayMs = 5000
      /\ \A v \in config[i].options.retryDelayMs : config[i].retryDelayMs = v
      /\ (config[i].retryAttempts <= 0 /\ call[i].op = "register" /\ call[i].entered) =>
           /\ call[i].pc = "returned"
           /\ call[i].sent = 0
           /\ call[i].requests = <<>>
           /\ call[i].waits = 0
           /\ call[i].waited = 0
           /\ call[i].result.kind = "return"
           /\ ~call[i].result.success
           /\ ~call[i].result.alreadyRegistered

\* register() was called on an unregistered instance constructed with
\* retryAttempts: 0 and has returned.
C37_Witness ==
    /\ config["manual"].options.retryAttempts = {0}
    /\ config["manual"].retryAttempts = 0
    /\ call["manual"].op = "register"
    /\ call["manual"].entered
    /\ call["manual"].pc = "returned"
    /\ call["manual"].sent = 0
    /\ ~call["manual"].result.success

\* C38: the metadata.cost of every 200 of the priced route is "$" followed
\* by the configured price, which is the price the payment middleware
\* charges for the route.
C38_CostIsConfiguredPrice ==
    (search.pc = "done" /\ search.status = 200) =>
      /\ search.content.metadata.cost = <<"$">> \o x402Config.priceUsd
      /\ \A entry \in RouteTable(x402Config) :
           search.content.metadata.cost = entry.price

\* ------------------------------------- the inputSchema of the priced route
InputSchemaProperties == {"query", "location", "radius", "language", "region"}

LowerCaseLetters ==
    { "a", "b", "c", "d", "e", "f", "g", "h", "i", "j", "k", "l", "m",
      "n", "o", "p", "q", "r", "s", "t", "u", "v", "w", "x", "y", "z" }

\* -?\d+\.\d+
MatchesDecimal(t) ==
    LET u == IF t # <<>> /\ t[1] = "-" THEN Tail(t) ELSE t
        dots == { i \in 1..Len(u) : u[i] = "." }
    IN  /\ Cardinality(dots) = 1
        /\ \A d \in dots : d > 1 /\ d < Len(u)
        /\ \A i \in (1..Len(u)) \ dots : u[i] \in DecimalDigits

\* pattern: "^-?\\d+\\.\\d+,-?\\d+\\.\\d+$"
MatchesLocationPattern(s) ==
    LET parts == Split(s, ",")
    IN  Len(parts) = 2 /\ MatchesDecimal(parts[1]) /\ MatchesDecimal(parts[2])

\* pattern: "^[a-z]{2}$"
MatchesTwoLetters(s) ==
    Len(s) = 2 /\ \A i \in 1..Len(s) : s[i] \in LowerCaseLetters

\* A body is valid against paymentRoutes["POST /api/places/text-search"].inputSchema.
SatisfiesInputSchema(body) ==
    /\ DOMAIN body \subseteq InputSchemaProperties
    /\ Has(body, "query")
    /\ Len(body.query) \in QueryMinLength..QueryMaxLength
    /\ Has(body, "location") =>
         (body.location.t = "string" /\ MatchesLocationPattern(body.location.s))
    /\ Has(body, "radius") =>
         (body.radius.t = "number" /\ body.radius.n \in RadiusMinimum..RadiusMaximum)
    /\ \A k \in {"language", "region"} :
         Has(body, k) => (body[k].t = "string" /\ MatchesTwoLetters(body[k].s))

\* C39: validateRequest returns an empty error list for exactly the bodies
\* that satisfy the inputSchema advertised for the priced route: query a
\* string of 1..512 characters, location matching the decimal 'lat,lng'
\* pattern, radius a number in 1..50000, and no property other than query,
\* location, radius, language and region.
C39_ValidatorMatchesSchema ==
    validation.pc = "validated" =>
      ((validation.errors = <<>>) <=> SatisfiesInputSchema(validation.body))

====
